---------------------------- MODULE Spec2Model ----------------------------
(***************************************************************************)
(* A model of the child-llm generation pipelines.                          *)
(*                                                                         *)
(*  - the two-pass pipeline: ChunkedTwoPassGenerator.generate_day_chunked, *)
(*    _generate_chunk, the two stage functions and _call_openai_with_retry *)
(*    (src/chunked_two_pass_generator.py);                                 *)
(*  - the concurrent pipeline: MonologueOrchestrator.generate_day and      *)
(*    ConsciousnessGenerator.generate_hour / _call_openai                  *)
(*    (src/child_llm/pipeline/orchestrator.py, generator.py);              *)
(*  - the continuity memory: update_memory of ChunkedTwoPassGenerator and  *)
(*    of ChunkedIterativeGenerator (src/chunked_iterative_generator.py).   *)
(*                                                                         *)
(* A service response is modelled by its structure: whether the text is    *)
(* valid JSON, whether the object has the "hour" key, and how many         *)
(* complete minute records it carries.  Text content is not modelled.      *)
(***************************************************************************)
EXTENDS Integers, Sequences, FiniteSets, TLC

(***************************************************************************)
(* Program constants.                                                      *)
(***************************************************************************)
HoursPerDay == 24
MinutesPerHour == 60
Chunk1End == 11
MaxAttempts == 3
FullTokens == 6000
SimplifiedTokens == 4000
DefaultMaxConcurrency == 8
MilestoneCap == 5
ActivityCap == 10
RoutineCap == 15
ChunkHistoryCap == 48
DayHistoryCap == 30

(***************************************************************************)
(* Bounds of the model.                                                    *)
(***************************************************************************)
\* Stage calls (two-pass) or hours (orchestrator) of one day whose service
\* outcomes may be anything; every other call gets a well-formed response.
MaxFaultyCalls == 1
\* Number of complete minute records in a short or truncated response.
TruncAt == 42

Hours == 0 .. (HoursPerDay - 1)
NoHour == -1

Max(a, b) == IF a >= b THEN a ELSE b
Min(a, b) == IF a <= b THEN a ELSE b

\* s[-n:] of Python.
LastN(s, n) == IF Len(s) <= n THEN s ELSE SubSeq(s, Len(s) - n + 1, Len(s))

VARIABLES
    \* ---- two-pass pipeline (ChunkedTwoPassGenerator) ----
    day_pc,                  \* position inside generate_day_chunked
    hour,                    \* loop variable of _generate_chunk
    stage,                   \* stage whose client call is running
    call,                    \* the running _call_openai_with_retry
    in_flight,               \* service requests sent and not yet answered
    external_reality_hours,  \* hour -> external result
    internal_monologue_hours,\* hour -> internal result
    internal_input,          \* hour -> external result given to the internal stage
    faulty,                  \* faulty calls so far
    memory,                  \* the memory dict of generate_day_chunked
    memory_file,             \* my_monologue/memory/context.json
    day_file,                \* the day artifact: <<>> until written
    \* ---- concurrent pipeline (MonologueOrchestrator) ----
    orch_pc,                 \* position inside MonologueOrchestrator.generate_day
    max_concurrency,         \* the max_concurrency argument
    semaphore,               \* free slots of the asyncio.Semaphore
    task,                    \* hour -> state of generate_hour_with_semaphore
    calls,                   \* hour -> the _call_openai of the hour
    hour_chunks,             \* hour -> what asyncio.gather collected
    vocabulary_year,         \* year of the day's vocabulary_period
    orch_day_file,           \* day_<date>.json: <<>> until written
    manifest,                \* the lines of manifest.jsonl
    \* ---- continuity memory across chunk and day updates ----
    mem_pc,                  \* position of the day whose memory updates are followed
    iter_memory,             \* the memory dict of ChunkedIterativeGenerator.generate_day
    day_lists,               \* what the chunks of the day yielded so far
    \* ---- the planner (HourPlanner.plan_day) ----
    plan_input,              \* the arguments scenario, target_date, timeline_data
    plan_runs,               \* run -> <<>> or <<the list plan_day returned>>
    \* ---- commands over several days, and stitching ----
    disk,                    \* path of a day artifact -> <<>> or <<its content>>
    driver,                  \* the command that is running, or ran last
    runs,                    \* generation commands started so far
    stitch_out,              \* the output file of stitch_days
    stitch_range,            \* the date range of the last stitch_days run
    stitches,                \* stitch_days runs so far
    \* ---- the clock of the two-pass client ----
    rate,                    \* the rate limiter and the running call, in ticks
    \* ---- the entry points ----
    invocation,              \* the command invoked, its argument and the verdict on it
    \* ---- the fix pass of simple_validation ----
    fs,                      \* path -> <<>> or <<the data of the file>>
    validations,             \* validation runs so far
    \* ---- generate_week and generate_month, day by day ----
    week_run,                \* the command, its position, and what it did so far
    fallback_calls           \* two calls of the fallback synthesis: hour plan and result

tpVars == <<day_pc, hour, stage, call, in_flight, external_reality_hours,
            internal_monologue_hours, internal_input, faulty,
            memory, memory_file, day_file>>

orVars == <<orch_pc, max_concurrency, semaphore, task, calls, hour_chunks,
            vocabulary_year, orch_day_file, manifest>>

memVars == <<mem_pc, iter_memory, day_lists>>

plVars == <<plan_input, plan_runs>>

drVars == <<disk, driver, runs, stitch_out, stitch_range, stitches>>

fxVars == <<fs, validations>>

\* The variables of the runs of one program part on its own.
partVars == <<fallback_calls>>

baseVars == <<tpVars, orVars, memVars, plVars, drVars, rate, invocation, fxVars, week_run>>

extVars == <<rate, invocation, fxVars, week_run, partVars>>

auxVars == <<plVars, drVars, extVars>>

vars == <<tpVars, orVars, memVars, auxVars>>

(***************************************************************************)
(* Results.  A result is the dict a stage returns: its "hour" value        *)
(* (NoHour when the key is missing), its minute records first ..           *)
(* first+count-1 and the tier that produced it.                            *)
(***************************************************************************)
Result(h, first, count, source) ==
    [hour |-> h, first |-> first, count |-> count, source |-> source]

\* The minute indices of a result, in order.
Minutes(r) == [i \in 1 .. r.count |-> r.first + i - 1]

\* _create_fallback_external_reality / _create_fallback_internal_monologue:
\* for i in range(60) ... return {"hour": hour, <key>: entries}
CreateFallback(st, h) == Result(h, 0, MinutesPerHour, "fallback")

\* _create_partial_external_reality / _create_partial_internal_monologue:
\* for i in range(start_minute, 60); "hour": 0
CreatePartial(st, start_minute) ==
    Result(0, start_minute, Max(0, MinutesPerHour - start_minute), "partial")

(***************************************************************************)
(* Service responses.  A response text is valid JSON or not; n is the      *)
(* number of complete minute records in it; hasHour tells whether the      *)
(* object has the "hour" key.  A text that is not valid JSON is a response *)
(* truncated in the middle of record n, inside its consciousness_components *)
(* object (cut = "components") or after that object was closed (cut =      *)
(* "labels").                                                              *)
(***************************************************************************)
Text(valid, hasHour, n, cut) ==
    [valid |-> valid, hasHour |-> hasHour, n |-> n, cut |-> cut]

GoodText == Text(TRUE, TRUE, MinutesPerHour, "none")

FaultyTexts ==
    { Text(TRUE, TRUE, TruncAt, "none"),           \* valid JSON, too few records
      Text(TRUE, FALSE, MinutesPerHour, "none"),   \* valid JSON without "hour"
      Text(FALSE, TRUE, TruncAt, "components"),    \* truncated mid-record
      Text(FALSE, TRUE, TruncAt, "labels") }

\* json.loads(content) of a valid text: the object the service wrote.
JsonLoads(text, h) ==
    Result(IF text.hasHour THEN h ELSE NoHour, 0, text.n, "service")

\* The strategies _parse_json_safely runs on a text, in order.
RecoveryOrder(text) ==
    IF text.valid THEN <<"direct">> ELSE <<"direct", "fallback">>

\* _parse_json_safely: json.loads, and on JSONDecodeError the full fallback.
ParseJsonSafely(text, st, h) ==
    IF text.valid THEN JsonLoads(text, h) ELSE CreateFallback(st, h)

(***************************************************************************)
(* The continuity memory.                                                  *)
(***************************************************************************)
NoDate == <<>>

\* load_memory when the file does not exist.
DefaultMemory ==
    [recent_milestones |-> <<>>,
     recent_activities |-> <<>>,
     current_routines |-> {},
     recent_social |-> <<"basic caregiver interaction">>,
     last_generated_date |-> NoDate,
     last_generated_hour |-> NoHour,
     generation_history |-> <<>>]

\* load_memory: the file's content, or the default dict.  A file is <<>>
\* when it does not exist and <<content>> when it does.
LoadMemory(file) == IF file = <<>> THEN DefaultMemory ELSE file[1]

SeqToSet(s) == { s[i] : i \in 1 .. Len(s) }

\* Mutant: the activities are kept whole.
UpdateMemoryChunkUncapped(mem, ms, acts, routs, socials, start_hour, end_hour) ==
    [mem EXCEPT
       !.recent_milestones = LastN(ms, MilestoneCap),
       !.recent_activities = acts,
       !.current_routines = SeqToSet(LastN(routs, RoutineCap)),
       !.recent_social = IF Len(socials) > 0 THEN socials[Len(socials)]
                         ELSE <<"basic caregiver interaction">>,
       !.last_generated_hour = end_hour,
       !.generation_history = Append(mem.generation_history,
           [kind |-> "chunk", range |-> <<start_hour, end_hour>>,
            milestones |-> Len(ms), activities |-> Len(acts)])]

\* ChunkedTwoPassGenerator.update_memory, after the extraction loop: ms, acts,
\* routs and socials are the lists the loop collected from the chunk.  A
\* history entry is recorded by its hour range and the lengths of its lists.
UpdateMemoryChunk(mem, ms, acts, routs, socials, start_hour, end_hour) ==
    LET entry == [kind |-> "chunk", range |-> <<start_hour, end_hour>>,
                  milestones |-> Len(ms), activities |-> Len(acts)]
        hist == Append(mem.generation_history, entry)
    IN [mem EXCEPT
          !.recent_milestones = LastN(ms, MilestoneCap),
          !.recent_activities = LastN(acts, ActivityCap),
          !.current_routines = SeqToSet(LastN(routs, RoutineCap)),
          !.recent_social = IF Len(socials) > 0 THEN socials[Len(socials)]
                            ELSE <<"basic caregiver interaction">>,
          !.last_generated_hour = end_hour,
          !.generation_history =
              IF Len(hist) > ChunkHistoryCap THEN LastN(hist, ChunkHistoryCap)
              ELSE hist]

\* Time-of-day band of the fallback templates.
Band(h) == IF h < 6 THEN "night" ELSE IF h < 12 THEN "morning"
           ELSE IF h < 18 THEN "afternoon" ELSE "evening"

\* The strings the extraction loop of update_memory reads from minute record
\* i of an internal result r: the service's own text (one distinct text per
\* record, with no "first" in motor_behavior and no "caregiver" in
\* social_interaction), the fallback template of the hour's band, or the
\* "Partial data" placeholder.
Learning(r, i) ==
    IF r.source = "service" THEN <<"learning", r.hour, r.first + i - 1>>
    ELSE IF r.source = "fallback" THEN <<"learning", Band(r.hour)>>
    ELSE <<"Partial data - environmental learning">>

Social(r, i) ==
    IF r.source = "service" THEN <<"social", r.hour, r.first + i - 1>>
    ELSE IF r.source = "fallback" THEN <<"caregiver presence and interaction">>
    ELSE <<"Partial data - social interaction">>

MentionsCaregiver(r) == r.source = "fallback"

RECURSIVE Concat(_)
Concat(ss) == IF ss = <<>> THEN <<>> ELSE Head(ss) \o Concat(Tail(ss))

\* The fallback and placeholder templates have no "first" in motor_behavior,
\* and the service's texts are taken to have none.
HasFirst(r) == FALSE

\* What one hour's result r adds to a list of the extraction loop
\*   for entry in hour_data['entries']: ...
\* list being "milestones", "activities", "routines" or "social".
Entries(r, list) ==
    IF list = "milestones"
    THEN IF HasFirst(r) THEN [i \in 1 .. r.count |-> <<"motor", r.hour, r.first + i - 1>>]
         ELSE <<>>
    ELSE IF list = "activities" THEN [i \in 1 .. r.count |-> Learning(r, i)]
    ELSE IF list = "routines" THEN [i \in 1 .. r.count |-> Social(r, i)]
    ELSE IF MentionsCaregiver(r) THEN [i \in 1 .. r.count |-> Social(r, i)]
    ELSE <<>>

\* for hour_data in chunk.values(): ... over the hours lo..hi of the result
\* map res.
Collect(res, lo, hi, list) ==
    Concat([k \in 1 .. (hi - lo + 1) |-> Entries(res[lo + k - 1], list)])

\* update_memory(chunk_data, memory, (start_hour, end_hour)) on the internal
\* results of the chunk's hours.
UpdateMemory(internal, mem, start_hour, end_hour) ==
    UpdateMemoryChunk(mem,
        Collect(internal, start_hour, end_hour, "milestones"),
        Collect(internal, start_hour, end_hour, "activities"),
        Collect(internal, start_hour, end_hour, "routines"),
        Collect(internal, start_hour, end_hour, "social"),
        start_hour, end_hour)

(***************************************************************************)
(* _call_openai_with_retry.                                                *)
(***************************************************************************)
Errors == {"rate_limit", "token_limit", "other"}

\* A new call: _rate_limit() has run and the loop is at attempt 0.
NoText == Text(FALSE, FALSE, 0, "none")

\* The record of a call: the loop variable attempt, the requests made and the
\* max_tokens of each, the last content received, whether a token-limit
\* error was met, and the result returned.
NewCall(max_tokens, ctx_hour) ==
    [state |-> "running", attempt |-> 0, requests |-> 0,
     max_tokens |-> max_tokens, ctx_hour |-> ctx_hour,
     token_limit |-> FALSE, budgets |-> <<>>, faulty |-> FALSE,
     content |-> NoText, result |-> Result(NoHour, 0, 0, "none")]

NoCall == [NewCall(0, 0) EXCEPT !.state = "none"]

\* Mutant: a rate-limit error is retried without counting the attempt out.
AfterErrorUnbounded(attempt, err) ==
    IF err = "token_limit" THEN "fallback"
    ELSE IF err = "rate_limit" THEN "retry"
    ELSE IF attempt + 1 >= MaxAttempts THEN "fallback"
    ELSE "retry"

\* The except branch of the loop at the given attempt: "retry" when the loop
\* goes on to another request, "fallback" when it is left.
\*   rate limit: sleep, continue (the loop ends after attempt 2);
\*   token limit: break;
\*   other: break on the last attempt, else sleep(1).
AfterError(attempt, err) ==
    IF err = "token_limit" THEN "fallback"
    ELSE IF attempt + 1 >= MaxAttempts THEN "fallback"
    ELSE "retry"

(***************************************************************************)
(* The two-pass pipeline.                                                  *)
(***************************************************************************)
\* No result yet (the key is not in the dict).
NoResult == Result(NoHour, 0, 0, "none")
NoResults == [h \in Hours |-> NoResult]

TPInit ==
    /\ day_pc = "idle"
    /\ hour = 0
    /\ stage = "none"
    /\ call = NoCall
    /\ in_flight = 0
    /\ external_reality_hours = NoResults
    /\ internal_monologue_hours = NoResults
    /\ internal_input = NoResults
    /\ faulty = 0
    /\ memory = DefaultMemory
    /\ memory_file = <<>>
    /\ day_file = <<>>

\* generate_day_chunked up to the first _generate_chunk: load_memory.
GenerateDayChunked ==
    /\ day_pc = "idle"
    /\ orch_pc = "idle"
    /\ memory' = LoadMemory(memory_file)
    /\ hour' = 0
    /\ day_pc' = "external_pending"
    /\ UNCHANGED <<stage, call, in_flight, external_reality_hours,
                   internal_monologue_hours, internal_input, faulty,
                   memory_file, day_file>>

\* _generate_chunk, first half of the loop body: plan the hour and enter
\* _generate_external_reality_async, which calls
\* _call_openai_with_retry(messages, 6000, "external_reality_hour_<hour>").
StartExternal ==
    /\ day_pc = "external_pending"
    /\ stage' = "external"
    /\ call' = NewCall(FullTokens, hour)
    /\ day_pc' = "calling"
    /\ UNCHANGED <<hour, in_flight, external_reality_hours,
                   internal_monologue_hours, internal_input, faulty,
                   memory, memory_file, day_file>>

\* Mutant: the internal stage is given the result of the hour before.
StaleStageArgument == external_reality_hours[Max(hour - 1, 0)]

\* The external_reality argument that _generate_chunk passes to the internal
\* stage of the hour: the result the external stage just returned.
InternalStageArgument == external_reality_hours[hour]

\* _generate_internal_monologue_async(external_reality, ...): reads
\* external_reality["hour"] (KeyError when the key is missing: nothing in
\* _generate_chunk or generate_day_chunked catches it) and calls
\* _call_openai_with_retry(messages, 6000, "internal_monologue_hour_<hour>").
StartInternal ==
    /\ day_pc = "internal_pending"
    /\ LET external_reality == InternalStageArgument IN
         IF external_reality.hour = NoHour
         THEN /\ day_pc' = "raised"
              /\ UNCHANGED <<stage, call, internal_input>>
         ELSE /\ stage' = "internal"
              /\ call' = NewCall(FullTokens, external_reality.hour)
              /\ internal_input' = [internal_input EXCEPT ![hour] = external_reality]
              /\ day_pc' = "calling"
    /\ UNCHANGED <<hour, in_flight, external_reality_hours,
                   internal_monologue_hours, faulty, memory, memory_file, day_file>>

\* client.chat.completions.create(...) is entered: one request goes out.
SendRequest ==
    /\ day_pc = "calling"
    /\ call.state = "running"
    /\ in_flight = 0
    /\ in_flight' = in_flight + 1
    /\ call' = [call EXCEPT !.requests = @ + 1,
                            !.budgets = Append(@, call.max_tokens)]
    /\ UNCHANGED <<day_pc, hour, stage, external_reality_hours,
                   internal_monologue_hours, internal_input, faulty,
                   memory, memory_file, day_file>>

\* Mutant: the chunk ends, and the memory is updated, after every hour.
StageReturnsEveryHour(result) ==
    IF stage = "external"
    THEN /\ external_reality_hours' = [external_reality_hours EXCEPT ![hour] = result]
         /\ day_pc' = "internal_pending"
         /\ UNCHANGED <<hour, internal_monologue_hours>>
    ELSE /\ internal_monologue_hours' = [internal_monologue_hours EXCEPT ![hour] = result]
         /\ day_pc' = "chunk_end" /\ hour' = hour
         /\ UNCHANGED external_reality_hours

\* The stage function returns result to _generate_chunk, which stores it and
\* moves on: to the internal stage of the hour, to the next hour, or out of
\* the loop.
StageReturns(result) ==
    IF stage = "external"
    THEN /\ external_reality_hours' = [external_reality_hours EXCEPT ![hour] = result]
         /\ day_pc' = "internal_pending"
         /\ UNCHANGED <<hour, internal_monologue_hours>>
    ELSE /\ internal_monologue_hours' = [internal_monologue_hours EXCEPT ![hour] = result]
         /\ IF hour = Chunk1End \/ hour = HoursPerDay - 1
            THEN day_pc' = "chunk_end" /\ hour' = hour
            ELSE day_pc' = "external_pending" /\ hour' = hour + 1
         /\ UNCHANGED external_reality_hours

\* A request that is not answered by the well-formed response makes its call
\* a faulty one; at most MaxFaultyCalls calls of a day are.
Charge(good) ==
    IF good \/ call.faulty THEN faulty' = faulty
    ELSE faulty < MaxFaultyCalls /\ faulty' = faulty + 1

\* The request returns content: _parse_json_safely decides the result.
ReceiveContent ==
    /\ day_pc = "calling"
    /\ in_flight = 1
    /\ \E text \in {GoodText} \cup FaultyTexts :
         /\ Charge(text = GoodText)
         /\ call' = [call EXCEPT !.state = "returned",
                                 !.faulty = @ \/ text # GoodText,
                                 !.content = text,
                                 !.result = ParseJsonSafely(text, stage, call.ctx_hour)]
         /\ StageReturns(ParseJsonSafely(text, stage, call.ctx_hour))
    /\ in_flight' = in_flight - 1
    /\ UNCHANGED <<stage, internal_input, memory, memory_file, day_file>>

\* The request raises: the except branch retries or leaves the loop, and
\* after the loop the call returns the full fallback.
ReceiveError ==
    /\ day_pc = "calling"
    /\ in_flight = 1
    /\ \E err \in Errors :
         /\ Charge(FALSE)
         /\ IF AfterError(call.attempt, err) = "retry"
            THEN /\ call' = [call EXCEPT !.attempt = @ + 1, !.faulty = TRUE]
                 /\ UNCHANGED <<day_pc, hour, external_reality_hours,
                                internal_monologue_hours>>
            ELSE /\ call' = [call EXCEPT !.state = "returned", !.faulty = TRUE,
                                         !.token_limit = (err = "token_limit"),
                                         !.result = CreateFallback(stage, call.ctx_hour)]
                 /\ StageReturns(CreateFallback(stage, call.ctx_hour))
    /\ in_flight' = in_flight - 1
    /\ UNCHANGED <<stage, internal_input, memory, memory_file, day_file>>

\* Mutant: the chunk's memory update is not saved.
CommitChunkWithoutSave ==
    /\ day_pc = "chunk_end"
    /\ memory' = UpdateMemory(internal_monologue_hours, memory,
                              IF hour = Chunk1End THEN 0 ELSE Chunk1End + 1, hour)
    /\ IF hour = Chunk1End
       THEN hour' = hour + 1 /\ day_pc' = "external_pending"
       ELSE hour' = hour /\ day_pc' = "write"
    /\ UNCHANGED <<stage, call, in_flight, external_reality_hours,
                   internal_monologue_hours, internal_input, faulty, day_file,
                   memory_file>>

\* generate_day_chunked after a chunk: update_memory, save_memory, and on to
\* chunk 2 or to the day structure.
CommitChunk ==
    /\ day_pc = "chunk_end"
    /\ LET start_hour == IF hour = Chunk1End THEN 0 ELSE Chunk1End + 1
           updated == UpdateMemory(internal_monologue_hours, memory, start_hour, hour)
       IN /\ memory' = updated
          /\ memory_file' = <<updated>>
    /\ IF hour = Chunk1End
       THEN hour' = hour + 1 /\ day_pc' = "external_pending"
       ELSE hour' = hour /\ day_pc' = "write"
    /\ UNCHANGED <<stage, call, in_flight, external_reality_hours,
                   internal_monologue_hours, internal_input, faulty, day_file>>

\* A generate_day_chunked that writes the day file after each chunk.
WriteDayFileEachChunk ==
    /\ day_pc = "chunk_end"
    /\ day_file' = <<[external_reality |-> external_reality_hours,
                      internal_monologue |-> internal_monologue_hours]>>
    /\ UNCHANGED <<day_pc, hour, stage, call, in_flight, external_reality_hours,
                   internal_monologue_hours, internal_input, faulty,
                   memory, memory_file>>

\* generate_day_chunked: build day_data and write the day file.
WriteDayFile ==
    /\ day_pc = "write"
    /\ day_file' = <<[external_reality |-> external_reality_hours,
                      internal_monologue |-> internal_monologue_hours]>>
    /\ day_pc' = "done"
    /\ UNCHANGED <<hour, stage, call, in_flight, external_reality_hours,
                   internal_monologue_hours, internal_input, faulty,
                   memory, memory_file>>

TPNext ==
    \/ (GenerateDayChunked /\ UNCHANGED <<orVars, memVars, auxVars>>)
    \/ (StartExternal /\ UNCHANGED <<orVars, memVars, auxVars>>)
    \/ (StartInternal /\ UNCHANGED <<orVars, memVars, auxVars>>)
    \/ (SendRequest /\ UNCHANGED <<orVars, memVars, auxVars>>)
    \/ (ReceiveContent /\ UNCHANGED <<orVars, memVars, auxVars>>)
    \/ (ReceiveError /\ UNCHANGED <<orVars, memVars, auxVars>>)
    \/ (CommitChunk /\ UNCHANGED <<orVars, memVars, auxVars>>)
    \/ (WriteDayFile /\ UNCHANGED <<orVars, memVars, auxVars>>)

(***************************************************************************)
(* The concurrent pipeline: MonologueOrchestrator.generate_day.            *)
(***************************************************************************)
\* Bound: the values of max_concurrency tried are 1 .. MaxConcurrency.
MaxConcurrency == 2

\* The hours whose service requests may fail or return unusable content
\* (failure injection); every other hour gets the well-formed response.
InjectHours == {7}

\* The vocabulary periods tried, by their year ("1.x", "2.x").
VocabularyYears == {1, 2}

Variations == 8
SimpleWordLen == 4
SimpleWordMax == 5

\* _get_fallback_vocabulary (the vocabulary file of the period is absent):
\* developmental_stage and the lengths of the core_vocabulary words
\* (mama, dada, ball, milk, up, down, more, no for year 2).
FallbackVocabulary(year) ==
    IF year = 1 THEN [developmental_stage |-> "pre-linguistic", core_vocabulary |-> <<>>]
    ELSE IF year = 2
    THEN [developmental_stage |-> "holophrastic",
          core_vocabulary |-> <<4, 4, 4, 4, 2, 4, 4, 2>>]
    ELSE [developmental_stage |-> "basic", core_vocabulary |-> <<>>]

\* len(pre_linguistic_vocalizations) in _create_fallback_hour_chunk: the 8
\* fixed sounds, or "trying to say <word>" for the first 5 words of at most
\* 4 letters plus "babbling" and "cooing".
VocalizationCount(vocab) ==
    IF vocab.developmental_stage = "pre-linguistic" \/ vocab.core_vocabulary = <<>>
    THEN 8
    ELSE Min(SimpleWordMax,
             Cardinality({i \in 1 .. Len(vocab.core_vocabulary) :
                            vocab.core_vocabulary[i] <= SimpleWordLen})) + 2

\* A rotation that advances once per block of 8 minutes.
TemplateIndexByBlock(minute) == (minute \div Variations) % Variations

\* minute_variation = minute % 8 in the loop of _create_fallback_hour_chunk.
TemplateIndex(minute) == minute % Variations

\* What gather records for a task that ended with an exception.
RaisedException(h) == Result(h, 0, 0, "exception")

\* _create_fallback_hour_chunk(hour_plan): for minute in range(60) the entry
\* reads content["vocal"][minute % 8], an IndexError when the list is
\* shorter; otherwise an HourChunk of 60 entries.
CreateFallbackHourChunk(h, year) ==
    IF \E minute \in 0 .. (MinutesPerHour - 1) :
          TemplateIndex(minute) >= VocalizationCount(FallbackVocabulary(year))
    THEN RaisedException(h)
    ELSE Result(h, 0, MinutesPerHour, "fallback")

SleepStates == {"awake", "asleep"}

\* The activity context of _create_fallback_hour_chunk: feeding at the hours
\* 2, 6, 10, 14, 18, 22, tummy time at 9 and 15, sensory play at 8 and 16,
\* each only in an awake hour of 6..22; rest otherwise.
IsAwakeTime(h, sleep_state) == h >= 6 /\ h <= 22 /\ sleep_state = "awake"

FallbackActivity(h, sleep_state) ==
    IF h \in {2, 6, 10, 14, 18, 22} /\ IsAwakeTime(h, sleep_state) THEN "feeding"
    ELSE IF h \in {9, 15} /\ IsAwakeTime(h, sleep_state) THEN "tummy time"
    ELSE IF h \in {8, 16} /\ IsAwakeTime(h, sleep_state) THEN "sensory play"
    ELSE "rest"

\* The five fields of a fallback minute read from the template lists of the
\* activity at position minute_variation; an item is named by its list and
\* its position, and the vocal list is the same for every activity.
TemplateFields(h, sleep_state, minute) ==
    LET activity == FallbackActivity(h, sleep_state)
        i == TemplateIndex(minute)
    IN [sensory_perception |-> <<activity, "sensory", i>>,
        social_interaction |-> <<activity, "social", i>>,
        vocalization |-> <<"vocal", i>>,
        motor_behavior |-> <<activity, "motor", i>>,
        emotional_expression |-> <<activity, "emotional", i>>]

\* The MinuteEntry of a fallback minute: the minute, the template fields,
\* the fields fixed by the activity and the labels.
FallbackMinuteEntry(h, sleep_state, minute) ==
    LET activity == FallbackActivity(h, sleep_state)
        awake == IsAwakeTime(h, sleep_state)
    IN [minute |-> minute,
        template |-> TemplateFields(h, sleep_state, minute),
        interoception |-> IF activity # "tummy time" THEN "comfortable and secure"
                          ELSE "working hard",
        attention_focus |-> IF awake THEN <<"focused on", activity>>
                            ELSE <<"drifting peacefully">>,
        intention_motive |-> IF activity = "feeding" THEN "seeking comfort"
                             ELSE IF activity = "sensory play" THEN "exploring"
                             ELSE "resting",
        arousal_level |-> IF activity = "tummy time" THEN "high"
                          ELSE IF awake THEN "medium" ELSE "low",
        social_context |-> IF awake THEN "with_caregivers" ELSE "alone"]

\* One entry of _create_fallback_external_reality: every field but the
\* minute is fixed by the band of the hour.
FallbackExternalEntry(h, minute) ==
    [minute |-> minute,
     environment |-> <<Band(h), "environment">>,
     caregiver_actions |-> <<Band(h), "caregiver_actions">>,
     routine_activity |-> <<Band(h), "activity">>,
     objects_present |-> "fixed", sensory_stimuli |-> "fixed", external_events |-> "fixed"]

\* _fix_truncated_json: a valid text is returned as it is; otherwise the text
\* is cut after the last "}," and closed with "]}".  json_str ends at the
\* last "}" of the response.  When the response was cut after the
\* components object of record n was closed, that "}" closes those components
\* and the last "}," ends record n-1: the repaired text is valid and holds
\* records 0..n-1.  When it was cut inside the components of record n, the
\* last "}" ends record n-1 and the last "}," closes the components of
\* record n-1: the repaired text is not valid and the original is returned.
FixTruncatedJson(text) ==
    IF text.valid THEN text
    ELSE IF text.cut = "labels" /\ text.n >= 1
         THEN Text(TRUE, text.hasHour, text.n, "none")
         ELSE text

\* _parse_hour_response: the repaired text must load, have "hour" and
\* "entries" and exactly 60 entries; anything else raises ValueError.
ParseHourResponse(text, h) ==
    LET fixed == FixTruncatedJson(text) IN
    IF fixed.valid /\ fixed.hasHour /\ fixed.n = MinutesPerHour
    THEN Result(h, 0, fixed.n, "service")
    ELSE RaisedException(h)

\* generate_hour after _call_openai returned content: the parsed HourChunk,
\* or in the except branch the fallback chunk (whose exception, if any,
\* leaves generate_hour).
GenerateHourFromContent(text, h, year) ==
    LET parsed == ParseHourResponse(text, h) IN
    IF parsed.source = "exception" THEN CreateFallbackHourChunk(h, year) ELSE parsed

\* _call_openai, the except branch at the given attempt: raise on the last
\* attempt, else sleep and go on.
CallOpenaiAfterError(attempt) ==
    IF attempt = MaxAttempts - 1 THEN "raise" ELSE "retry"

\* A response that is empty or shorter than 100 characters.
ShortText == Text(FALSE, FALSE, 0, "short")

\* The _call_openai of an hour: the requests made, how it ended ("returned"
\* content, or "raised" its last error) and the last content received.
NoHourCall == [requests |-> 0, outcome |-> "none", content |-> NoText]

\* Mutant: the gate admits every task.
CanAcquireAlways(value) == TRUE

\* async with semaphore: a slot is free.
CanAcquire(value) == value > 0

ORInit ==
    /\ orch_pc = "idle"
    /\ max_concurrency = DefaultMaxConcurrency
    /\ semaphore = 0
    /\ task = [h \in Hours |-> "none"]
    /\ calls = [h \in Hours |-> NoHourCall]
    /\ hour_chunks = NoResults
    /\ vocabulary_year = 1
    /\ orch_day_file = <<>>
    /\ manifest = <<>>

\* generate_day up to asyncio.gather: plan_day, the semaphore, one task per
\* hour plan.
GenerateDay ==
    /\ orch_pc = "idle"
    /\ day_pc = "idle"
    /\ \E n \in 1 .. MaxConcurrency : max_concurrency' = n /\ semaphore' = n
    /\ \E year \in VocabularyYears : vocabulary_year' = year
    /\ task' = [h \in Hours |-> "pending"]
    /\ orch_pc' = "gather"
    /\ UNCHANGED <<calls, hour_chunks, orch_day_file, manifest>>

\* generate_hour_with_semaphore(plan) enters "async with semaphore".  The
\* tasks were created in hour order and asyncio.Semaphore wakes its waiters
\* first come first served, so the pending hours are admitted in order.
Acquire(h) ==
    /\ orch_pc = "gather"
    /\ task[h] = "pending"
    /\ \A g \in Hours : g < h => task[g] # "pending"
    /\ CanAcquire(semaphore)
    /\ semaphore' = semaphore - 1
    /\ task' = [task EXCEPT ![h] = "running"]
    /\ UNCHANGED <<orch_pc, max_concurrency, calls, hour_chunks,
                   vocabulary_year, orch_day_file, manifest>>

\* A gather that lists the results in the order in which the tasks ended.
HourEndsInCompletionOrder(h, result) ==
    /\ hour_chunks' = [hour_chunks EXCEPT
                          ![Cardinality({g \in Hours : task[g] = "done"})] = result]
    /\ task' = [task EXCEPT ![h] = "done"]
    /\ semaphore' = semaphore + 1

\* The task of hour h ends with result: the slot is released on the way out
\* of "async with", also when result is an exception.
HourEnds(h, result) ==
    /\ hour_chunks' = [hour_chunks EXCEPT ![h] = result]
    /\ task' = [task EXCEPT ![h] = "done"]
    /\ semaphore' = semaphore + 1

\* One request of _call_openai for hour h returns content of at least 100
\* characters: _call_openai returns it and generate_hour parses it.
HourContent(h) ==
    /\ orch_pc = "gather"
    /\ task[h] = "running"
    /\ \E text \in {GoodText} \cup (IF h \in InjectHours THEN FaultyTexts ELSE {}) :
         /\ HourEnds(h, GenerateHourFromContent(text, h, vocabulary_year))
         /\ calls' = [calls EXCEPT ![h] = [requests |-> @.requests + 1,
                                           outcome |-> "returned",
                                           content |-> text]]
    /\ UNCHANGED <<orch_pc, max_concurrency, vocabulary_year, orch_day_file, manifest>>

\* One request of _call_openai for hour h fails (an API error, or content
\* that is empty or shorter than 100 characters, a ValueError raised inside
\* the same try): retry, or on the last attempt raise into generate_hour,
\* whose except branch builds the fallback chunk.
HourError(h) ==
    /\ orch_pc = "gather"
    /\ task[h] = "running"
    /\ h \in InjectHours
    /\ \E cause \in {"api_error", "too_short"} :
         LET received == IF cause = "too_short" THEN ShortText ELSE calls[h].content
         IN IF CallOpenaiAfterError(calls[h].requests) = "retry"
            THEN /\ calls' = [calls EXCEPT ![h].requests = @ + 1,
                                           ![h].content = received]
                 /\ UNCHANGED <<hour_chunks, task, semaphore>>
            ELSE /\ calls' = [calls EXCEPT ![h].requests = @ + 1,
                                           ![h].outcome = "raised",
                                           ![h].content = received]
                 /\ HourEnds(h, CreateFallbackHourChunk(h, vocabulary_year))
    /\ UNCHANGED <<orch_pc, max_concurrency, vocabulary_year, orch_day_file, manifest>>

\* generate_day after gather: every exception among the results is replaced
\* by _create_fallback_hour_chunk(hour_plans[i]), whose exception, if any,
\* leaves generate_day; then the DayFile is built.
Collect24 ==
    /\ orch_pc = "gather"
    /\ \A h \in Hours : task[h] = "done"
    /\ LET valid_chunks ==
             [h \in Hours |->
                IF hour_chunks[h].source = "exception"
                THEN CreateFallbackHourChunk(h, vocabulary_year)
                ELSE hour_chunks[h]]
       IN IF \E h \in Hours : valid_chunks[h].source = "exception"
          THEN orch_pc' = "raised" /\ UNCHANGED hour_chunks
          ELSE orch_pc' = "save" /\ hour_chunks' = valid_chunks
    /\ UNCHANGED <<max_concurrency, semaphore, task, calls, vocabulary_year,
                   orch_day_file, manifest>>

\* A _save_day_file that appends the manifest line where the code writes the
\* day file.
SaveDayFileManifestFirst ==
    /\ orch_pc = "save"
    /\ manifest' = Append(manifest, [minutes |-> HoursPerDay * MinutesPerHour])
    /\ orch_pc' = "manifest"
    /\ UNCHANGED <<max_concurrency, semaphore, task, calls, hour_chunks,
                   vocabulary_year, orch_day_file>>

\* _save_day_file: the day file is written.
SaveDayFile ==
    /\ orch_pc = "save"
    /\ orch_day_file' = <<hour_chunks>>
    /\ orch_pc' = "manifest"
    /\ UNCHANGED <<max_concurrency, semaphore, task, calls, hour_chunks,
                   vocabulary_year, manifest>>

\* _update_manifest: one line is appended.
UpdateManifest ==
    /\ orch_pc = "manifest"
    /\ manifest' = Append(manifest, [minutes |-> HoursPerDay * MinutesPerHour])
    /\ orch_pc' = "done"
    /\ UNCHANGED <<max_concurrency, semaphore, task, calls, hour_chunks,
                   vocabulary_year, orch_day_file>>

ORNext ==
    \/ (GenerateDay /\ UNCHANGED <<tpVars, memVars, auxVars>>)
    \/ (\E h \in Hours : Acquire(h) /\ UNCHANGED <<tpVars, memVars, auxVars>>)
    \/ (\E h \in Hours : HourContent(h) /\ UNCHANGED <<tpVars, memVars, auxVars>>)
    \/ (\E h \in Hours : HourError(h) /\ UNCHANGED <<tpVars, memVars, auxVars>>)
    \/ (Collect24 /\ UNCHANGED <<tpVars, memVars, auxVars>>)
    \/ (SaveDayFile /\ UNCHANGED <<tpVars, memVars, auxVars>>)
    \/ (UpdateManifest /\ UNCHANGED <<tpVars, memVars, auxVars>>)

(***************************************************************************)
(* The continuity memory over chunk updates and day updates.  A day is     *)
(* generated by ChunkedTwoPassGenerator.generate_day_chunked, called       *)
(* directly or from ChunkedIterativeGenerator.generate_day; here only the  *)
(* memory is followed, and what the extraction loop of update_memory       *)
(* collects from a chunk is an input.                                      *)
(***************************************************************************)
\* Bound: the longest list a chunk yields.
MaxItems == 16

\* Lengths of the lists a chunk yields.
ItemCounts == {0, MilestoneCap, ActivityCap, RoutineCap, MaxItems}

\* The lists collected from a chunk in which n minute records carry a
\* motor_behavior with "first", an environmental_learning and a
\* social_interaction naming the caregiver, with d distinct
\* social_interaction texts among them.
Extracted(n, d) ==
    [milestones |-> [i \in 1 .. n |-> i],
     activities |-> [i \in 1 .. n |-> i],
     routines |-> [i \in 1 .. n |-> <<((i - 1) % d) + 1>>]]

NoLists == [milestones |-> <<>>, activities |-> <<>>, routines |-> <<>>]

JoinLists(a, b) ==
    [milestones |-> a.milestones \o b.milestones,
     activities |-> a.activities \o b.activities,
     routines |-> a.routines \o b.routines]

\* ChunkedIterativeGenerator.update_memory, after the extraction loop over
\* the whole day.
UpdateMemoryDay(mem, ms, acts, routs, socials) ==
    LET entry == [kind |-> "day", range |-> <<0, HoursPerDay - 1>>,
                  milestones |-> Len(ms), activities |-> Len(acts)]
        hist == Append(mem.generation_history, entry)
    IN [mem EXCEPT
          !.recent_milestones = LastN(ms, MilestoneCap),
          !.recent_activities = LastN(acts, ActivityCap),
          !.current_routines = SeqToSet(LastN(routs, RoutineCap)),
          !.recent_social = IF Len(socials) > 0 THEN socials[Len(socials)]
                            ELSE <<"basic caregiver interaction">>,
          !.last_generated_date = <<"date">>,
          !.last_generated_hour = HoursPerDay - 1,
          !.generation_history =
              IF Len(hist) > DayHistoryCap THEN LastN(hist, DayHistoryCap)
              ELSE hist]

\* A memory file left by earlier runs: len history entries of one kind
\* (chunk entries of direct two-pass days, day entries of iterative days),
\* the recent lists being those of the last update.
EarlierFile(kind, len, n) ==
    LET x == Extracted(n, Max(n, 1))
        entry == [kind |-> kind,
                  range |-> IF kind = "day" THEN <<0, HoursPerDay - 1>>
                            ELSE <<Chunk1End + 1, HoursPerDay - 1>>,
                  milestones |-> n, activities |-> n]
    IN <<[DefaultMemory EXCEPT
            !.recent_milestones = LastN(x.milestones, MilestoneCap),
            !.recent_activities = LastN(x.activities, ActivityCap),
            !.current_routines = SeqToSet(LastN(x.routines, RoutineCap)),
            !.last_generated_hour = HoursPerDay - 1,
            !.generation_history = [i \in 1 .. len |-> entry]]>>

EarlierFiles ==
    {<<>>}
    \cup { EarlierFile("chunk", len, n) : len \in 1 .. ChunkHistoryCap, n \in {0, MaxItems} }
    \cup { EarlierFile("day", len, n) : len \in 1 .. DayHistoryCap, n \in {0, MaxItems} }

MemInit ==
    /\ mem_pc = "idle"
    /\ iter_memory = DefaultMemory
    /\ day_lists = NoLists

\* ChunkedIterativeGenerator.generate_day up to the call of
\* generate_day_chunked: load_memory into its own dict.
IterLoad ==
    /\ mem_pc = "idle"
    /\ iter_memory' = LoadMemory(memory_file)
    /\ mem_pc' = "iter_loaded"
    /\ UNCHANGED <<memory, memory_file, day_lists>>

\* generate_day_chunked (called directly, or from the iterative generator):
\* load_memory.
ChunkedLoad ==
    /\ mem_pc \in {"idle", "iter_loaded"}
    /\ memory' = LoadMemory(memory_file)
    /\ mem_pc' = IF mem_pc = "idle" THEN "direct_chunk1" ELSE "iter_chunk1"
    /\ day_lists' = NoLists
    /\ UNCHANGED <<memory_file, iter_memory>>

\* A chunk of the day is complete: update_memory(chunk_data, memory,
\* hour_range) and save_memory(memory).
ChunkUpdate ==
    /\ mem_pc \in {"direct_chunk1", "direct_chunk2", "iter_chunk1", "iter_chunk2"}
    /\ \E n \in ItemCounts : \E d \in {1, Max(n, 1)} :
         LET x == Extracted(n, d)
             first == mem_pc \in {"direct_chunk1", "iter_chunk1"}
             updated == UpdateMemoryChunk(memory, x.milestones, x.activities,
                            x.routines, x.routines,
                            IF first THEN 0 ELSE Chunk1End + 1,
                            IF first THEN Chunk1End ELSE HoursPerDay - 1)
         IN /\ memory' = updated
            /\ memory_file' = <<updated>>
            /\ day_lists' = JoinLists(day_lists, x)
    /\ mem_pc' = CASE mem_pc = "direct_chunk1" -> "direct_chunk2"
                   [] mem_pc = "direct_chunk2" -> "direct_done"
                   [] mem_pc = "iter_chunk1" -> "iter_chunk2"
                   [] mem_pc = "iter_chunk2" -> "iter_day"
    /\ UNCHANGED iter_memory

\* ChunkedIterativeGenerator.generate_day after generate_day_chunked
\* returned: update_memory(day_data, memory) on its own dict, save_memory.
DayUpdate ==
    /\ mem_pc = "iter_day"
    /\ LET updated == UpdateMemoryDay(iter_memory, day_lists.milestones,
                          day_lists.activities, day_lists.routines, day_lists.routines)
       IN /\ iter_memory' = updated
          /\ memory_file' = <<updated>>
    /\ mem_pc' = "iter_done"
    /\ UNCHANGED <<memory, day_lists>>

MemNext ==
    \/ (IterLoad /\ UNCHANGED <<day_pc, hour, stage, call, in_flight,
                                external_reality_hours, internal_monologue_hours,
                                internal_input, faulty, day_file, orVars, auxVars>>)
    \/ (ChunkedLoad /\ UNCHANGED <<day_pc, hour, stage, call, in_flight,
                                external_reality_hours, internal_monologue_hours,
                                internal_input, faulty, day_file, orVars, auxVars>>)
    \/ (ChunkUpdate /\ UNCHANGED <<day_pc, hour, stage, call, in_flight,
                                external_reality_hours, internal_monologue_hours,
                                internal_input, faulty, day_file, orVars, auxVars>>)
    \/ (DayUpdate /\ UNCHANGED <<day_pc, hour, stage, call, in_flight,
                                external_reality_hours, internal_monologue_hours,
                                internal_input, faulty, day_file, orVars, auxVars>>)

(***************************************************************************)
(* The planner: HourPlanner.plan_day.  A dict is a function from its keys;  *)
(* a date is given by the days since the birthdate and its month.          *)
(***************************************************************************)
DaysPerWeek == 7
DaysPerYear == 365

\* d.get(k, default)
Get(d, k, default) == IF k \in DOMAIN d THEN d[k] ELSE default

WeeksPerYear == 52

\* _get_week_index
GetWeekIndex(age_days) == (age_days \div DaysPerWeek) + 1

\* The default developmental context of _get_weekly_context.
DefaultContext ==
    [developmental_stage |-> "sensorimotor",
     cognitive_focus |-> "sensory_integration",
     vocabulary_period |-> "1.1",
     language_characteristics |-> <<"cooing", "babbling">>,
     forbidden_patterns |-> <<"complex sentences", "abstract concepts">>,
     typical_activities |-> <<"sleeping", "feeding", "sensory exploration">>,
     emotional_range |-> <<"calm", "discomfort", "curiosity">>]

\* The positions of the entries of the timeline whose week_index is the week.
WeekMatches(week_index, weekly_timeline) ==
    { i \in 1 .. Len(weekly_timeline) :
        /\ "week_index" \in DOMAIN weekly_timeline[i]
        /\ weekly_timeline[i].week_index = week_index }

\* Mutant: with no entry for the week, the last entry of the timeline is used.
GetWeeklyContextNearest(week_index, timeline_data) ==
    LET weekly_timeline == Get(timeline_data, "weekly_timeline", <<>>)
        found == WeekMatches(week_index, weekly_timeline)
    IN IF found # {}
       THEN weekly_timeline[CHOOSE i \in found : \A j \in found : i <= j]
       ELSE IF weekly_timeline # <<>> THEN weekly_timeline[Len(weekly_timeline)]
       ELSE DefaultContext

\* _get_weekly_context: the first entry of the week, or the default context.
GetWeeklyContext(week_index, timeline_data) ==
    LET weekly_timeline == Get(timeline_data, "weekly_timeline", <<>>)
        found == WeekMatches(week_index, weekly_timeline)
    IN IF found = {} THEN DefaultContext
       ELSE weekly_timeline[CHOOSE i \in found : \A j \in found : i <= j]

\* HourPlanner.sleep_patterns: the sleep_hours of a tier, the 24 hours in
\* each of the five tiers.
AgeTiers == <<"newborn", "infant", "toddler", "preschool", "school_age">>

SleepPatterns == [tier \in {AgeTiers[i] : i \in DOMAIN AgeTiers} |-> [sleep_hours |-> 0 .. 23]]

\* A sleep state read from lists that hold the night hours alone.
DetermineSleepStateAtNight(h, age_years) ==
    IF age_years \in 0 .. 4 /\ (h < 7 \/ h > 19) THEN "asleep" ELSE "awake"

\* The hour lists written out in the branches of _determine_sleep_state, one
\* per age 0..4; the function does not read sleep_patterns.
SleepHoursOfAge(age_years) == 0 .. 23

\* _determine_sleep_state: "asleep" when the age has a branch and the hour
\* is in the list of that branch, "awake" in every other case.
DetermineSleepState(h, age_years) ==
    IF age_years \in 0 .. 4 /\ h \in SleepHoursOfAge(age_years) THEN "asleep" ELSE "awake"

\* A developmental context whose vocabulary_period is the hardcoded band.
GetDevelopmentalContextHardcoded(weekly_context) ==
    [developmental_theme |-> Get(weekly_context, "developmental_theme", "sensory_integration"),
     cognitive_focus |-> Get(weekly_context, "cognitive_focus", "pattern_recognition"),
     vocabulary_period |-> "1.1",
     milestones |-> Get(weekly_context, "milestones", <<>>),
     vocabulary_focus |-> Get(weekly_context, "vocabulary_focus", <<>>),
     dominant_emotions |-> Get(weekly_context, "dominant_emotions", <<"curiosity">>),
     routine_tags |-> Get(weekly_context, "routine_tags", <<"daily routine">>),
     forbidden_patterns |-> Get(weekly_context, "forbidden_patterns",
                                <<"complex_sentences", "abstract_concepts">>)]

\* _get_developmental_context
GetDevelopmentalContext(weekly_context) ==
    [developmental_theme |-> Get(weekly_context, "developmental_theme", "sensory_integration"),
     cognitive_focus |-> Get(weekly_context, "cognitive_focus", "pattern_recognition"),
     vocabulary_period |-> Get(weekly_context, "vocabulary_period", "1.1"),
     milestones |-> Get(weekly_context, "milestones", <<>>),
     vocabulary_focus |-> Get(weekly_context, "vocabulary_focus", <<>>),
     dominant_emotions |-> Get(weekly_context, "dominant_emotions", <<"curiosity">>),
     routine_tags |-> Get(weekly_context, "routine_tags", <<"daily routine">>),
     forbidden_patterns |-> Get(weekly_context, "forbidden_patterns",
                                <<"complex_sentences", "abstract_concepts">>)]

\* _get_season
GetSeason(month) ==
    IF month \in {12, 1, 2} THEN "winter"
    ELSE IF month \in {3, 4, 5} THEN "spring"
    ELSE IF month \in {6, 7, 8} THEN "summer"
    ELSE "autumn"

\* Mutant: the weather is drawn anew in every run.
WeatherOfTheRun == IF plan_runs[1] = <<>> /\ plan_runs[2] = <<>> THEN "typical" ELSE "rain"

\* "weather" of _get_environmental_context.
Weather == "typical"

\* _get_environmental_context
GetEnvironmentalContext(h, target_date, scenario) ==
    [time_of_day |-> IF 6 <= h /\ h <= 8 THEN "morning"
                     ELSE IF 12 <= h /\ h <= 14 THEN "afternoon"
                     ELSE IF 18 <= h /\ h <= 20 THEN "evening"
                     ELSE IF 22 <= h \/ h <= 6 THEN "night"
                     ELSE "day",
     season |-> GetSeason(target_date.month),
     weather |-> Weather,
     location |-> scenario.home_type,
     temperature |-> "comfortable"]

\* _get_social_context: all caregivers in the hours 7..9 and 17..19, else
\* the first one.
GetSocialContext(h, scenario) ==
    LET caregivers_present ==
          IF (7 <= h /\ h <= 9) \/ (17 <= h /\ h <= 19) THEN scenario.caregivers
          ELSE <<scenario.caregivers[1]>>
    IN [caregivers_present |-> caregivers_present,
        social_interaction_level |-> IF caregivers_present # <<>> THEN "high" ELSE "low",
        other_children |-> <<>>]

\* _get_emotional_context; extraversion is in tenths.
GetEmotionalContext(h, weekly_context, scenario) ==
    [dominant_emotions |->
        Get(weekly_context, "dominant_emotions", <<"curiosity">>)
        \o (IF "sensitive_to_noise" \in scenario.temperament_tags /\ h \in {8, 18}
            THEN <<"overwhelmed">> ELSE <<>>)
        \o (IF Get(scenario.personality, "extraversion", 5) > 7
            THEN <<"excited">> ELSE <<>>),
     arousal_level |-> "medium",
     emotional_stability |-> "stable"]

\* The tables of _get_language_constraints, _get_cognitive_abilities,
\* _get_typical_activities and _get_forbidden_patterns are indexed by the
\* age alone: an age outside 0..5 reads the row of age 0, except in
\* _get_typical_activities, whose else branch is the row of age 5.
AgeRow(age_years) == IF age_years \in 0 .. 5 THEN age_years ELSE 0

GetForbiddenPatterns(age_years) ==
    IF AgeRow(age_years) \in {0, 1}
    THEN <<"future_tense", "complex_sentences", "abstract_concepts">>
    ELSE IF AgeRow(age_years) = 2 THEN <<"complex_sentences", "abstract_concepts">>
    ELSE IF AgeRow(age_years) = 3 THEN <<"abstract_concepts">>
    ELSE <<>>

GetLanguageConstraints(age_years) ==
    [max_sentence_length |-> AgeRow(age_years) + 3,
     forbidden_patterns |->
        IF AgeRow(age_years) \in {0, 1} THEN <<"future_tense", "complex_sentences">>
        ELSE IF AgeRow(age_years) = 2 THEN <<"complex_sentences">>
        ELSE IF AgeRow(age_years) = 3 THEN <<"abstract_concepts">>
        ELSE <<>>]

GetCognitiveAbilities(age_years) == <<"abilities", AgeRow(age_years)>>

GetTypicalActivities(h, age_years) ==
    <<"activities", IF age_years \in 0 .. 4 THEN age_years ELSE 5>>

\* _compute_content_hash: sha256 of json.dumps(hour_plan, sort_keys=True).
\* The text is fixed by the keys and values of the plan, so the digest is
\* given by the plan; collisions of the 16 digits kept are not modelled.
ComputeContentHash(hour_plan) == <<"sha256", hour_plan>>

\* The hour plan before content_hash is added.
HourPlanFields(h, age_years, weekly_context, scenario, target_date) ==
    [hour |-> h,
     year |-> age_years,
     week |-> GetWeekIndex(target_date.age_days),
     sleep_state |-> DetermineSleepState(h, age_years),
     developmental_context |-> GetDevelopmentalContext(weekly_context),
     environmental_context |-> GetEnvironmentalContext(h, target_date, scenario),
     social_context |-> GetSocialContext(h, scenario),
     emotional_context |-> GetEmotionalContext(h, weekly_context, scenario),
     language_constraints |-> GetLanguageConstraints(age_years),
     cognitive_abilities |-> GetCognitiveAbilities(age_years),
     typical_activities |-> GetTypicalActivities(h, age_years),
     forbidden_patterns |-> GetForbiddenPatterns(age_years)]

\* _plan_hour
PlanHour(h, age_years, weekly_context, scenario, target_date) ==
    LET hour_plan == HourPlanFields(h, age_years, weekly_context, scenario, target_date)
    IN hour_plan @@ ("content_hash" :> ComputeContentHash(hour_plan))

\* plan_day
PlanDay(scenario, target_date, timeline_data) ==
    LET age_years == target_date.age_days \div DaysPerYear
        week_index == GetWeekIndex(target_date.age_days)
        weekly_context == GetWeeklyContext(week_index, timeline_data)
    IN [i \in 1 .. HoursPerDay |->
          PlanHour(i - 1, age_years, weekly_context, scenario, target_date)]

\* ChunkedTwoPassGenerator._get_week_index: the whole weeks since birth.
TwoPassGetWeekIndex(age_days) == age_days \div DaysPerWeek

\* The context ChunkedTwoPassGenerator._get_weekly_context returns when the
\* timeline has no entry of the week.
TwoPassDefaultContext(week_index) ==
    [week_index |-> week_index,
     developmental_theme |-> "basic",
     vocabulary_period |-> "1.1",
     milestones |-> <<>>,
     dominant_emotions |-> <<"curiosity">>,
     routine_tags |-> <<"daily routine">>]

\* ChunkedTwoPassGenerator._get_weekly_context: the first entry whose
\* week_index is the week, or the default.
TwoPassGetWeeklyContext(week_index, timeline_data) ==
    LET weekly_timeline == Get(timeline_data, "weekly_timeline", <<>>)
        found == WeekMatches(week_index, weekly_timeline)
    IN IF found = {} THEN TwoPassDefaultContext(week_index)
       ELSE weekly_timeline[CHOOSE i \in found : \A j \in found : i <= j]

\* The hour plan _generate_chunk builds for hour h: age_years is
\* max(1, days // 365 + 1), the weekly context is looked up with the
\* generator's own week index, and HourPlanner._plan_hour fills the plan
\* (its week field with the planner's week index).
TwoPassHourPlan(h, scenario, target_date, timeline_data) ==
    LET age_years == Max(1, (target_date.age_days \div DaysPerYear) + 1)
        week_index == TwoPassGetWeekIndex(target_date.age_days)
        weekly_context == TwoPassGetWeeklyContext(week_index, timeline_data)
    IN PlanHour(h, age_years, weekly_context, scenario, target_date)

\* age_weeks in _generate_external_reality_async and
\* _generate_internal_monologue_async.
PromptAgeWeeks(hour_plan) ==
    (Get(hour_plan, "year", 1) - 1) * WeeksPerYear + Get(hour_plan, "week", 1)

\* The timeline entry of a week, with all the fields the planner reads or
\* with week_index alone.
WeekEntry(week_index, full) ==
    IF full
    THEN [week_index |-> week_index,
          developmental_theme |-> "theme",
          cognitive_focus |-> "focus",
          vocabulary_period |-> "1.2",
          milestones |-> <<"milestone">>,
          dominant_emotions |-> <<"joy">>]
    ELSE [week_index |-> week_index]

\* The days since birth of the target dates tried.
AgeDays == {0, 6, 7, 364, 365, 2200}

Timelines ==
    { [metadata |-> "none"],
      [weekly_timeline |-> <<>>],
      [weekly_timeline |-> <<WeekEntry(1, TRUE)>>],
      [weekly_timeline |-> <<WeekEntry(1, FALSE), WeekEntry(2, TRUE)>>],
      [weekly_timeline |-> <<WeekEntry(2, TRUE), WeekEntry(1, TRUE), WeekEntry(2, FALSE)>>],
      [weekly_timeline |-> <<WeekEntry(53, TRUE)>>] }

Scenarios ==
    { [caregivers |-> c, home_type |-> "apartment", temperament_tags |-> t, personality |-> p] :
        c \in { <<"Ana">>, <<"Ana", "Ben">> },
        t \in { {}, {"sensitive_to_noise"} },
        p \in { [openness |-> 5], [extraversion |-> 5], [extraversion |-> 8] } }

PlanInputs ==
    { [scenario |-> s, target_date |-> [age_days |-> a, month |-> m], timeline_data |-> t] :
        s \in Scenarios, a \in AgeDays, m \in {1, 4, 7, 10}, t \in Timelines }

PLInit ==
    /\ plan_input = [scenario |-> [caregivers |-> <<"Ana">>, home_type |-> "apartment",
                                   temperament_tags |-> {}, personality |-> [extraversion |-> 5]],
                     target_date |-> [age_days |-> 0, month |-> 1],
                     timeline_data |-> [weekly_timeline |-> <<>>]]
    /\ plan_runs = [r \in 1 .. 2 |-> <<>>]

\* One run of plan_day on the arguments.
PlanDayRun(r) ==
    /\ plan_runs[r] = <<>>
    /\ plan_runs' = [plan_runs EXCEPT ![r] =
           <<PlanDay(plan_input.scenario, plan_input.target_date, plan_input.timeline_data)>>]
    /\ UNCHANGED plan_input

PLNext ==
    \/ (\E r \in 1 .. 2 : PlanDayRun(r) /\ UNCHANGED <<tpVars, orVars, memVars, drVars, extVars>>)

(***************************************************************************)
(* Commands over one or several days, and stitch_days.  A date is a day    *)
(* number; one generation of a day is one step, which either persists the  *)
(* day or raises.  The content a run persists is what the service returned *)
(* in that run, named by the number of the run.                            *)
(***************************************************************************)
\* Bound: generation commands run one after the other.
MaxRuns == 2
\* Bound: the days of generate_year's range that are followed (365 in the code).
MaxYearDays == 3
\* Bound: runs of stitch_days.
MaxStitches == 2

WeeksPerMonth == 4

\* The dates a single-day command may be given.
DayArguments == {1, 2}

\* <output_dir>/year_Y/month_M/day_<date>.json of _save_day_file, and
\* day_<date>_chunked.json of generate_day_chunked.
DayPath(kind, d) ==
    IF kind \in {"day", "year"} THEN <<"day.json", d>> ELSE <<"day_chunked.json", d>>

Paths ==
    { <<t, d>> : t \in {"day.json", "day_chunked.json"},
                 d \in 1 .. (WeeksPerMonth * DaysPerWeek) }

\* The dates a command goes through, in order.
RangeOf(kind, d) ==
    IF kind = "year" THEN [i \in 1 .. MaxYearDays |-> i]
    ELSE IF kind = "week" THEN [i \in 1 .. DaysPerWeek |-> d + i - 1]
    ELSE IF kind = "month" THEN [i \in 1 .. (WeeksPerMonth * DaysPerWeek) |-> d + i - 1]
    ELSE <<d>>

NoDriver ==
    [kind |-> "none", state |-> "idle", dates |-> <<>>, pos |-> 1,
     attempted |-> {}, day_files |-> <<>>]

DRInit ==
    /\ disk = [p \in Paths |-> <<>>]
    /\ driver = NoDriver
    /\ runs = 0
    /\ stitch_out = <<>>
    /\ stitch_range = <<>>
    /\ stitches = 0

orRest == <<orch_pc, max_concurrency, semaphore, task, calls, hour_chunks,
            vocabulary_year, orch_day_file>>

\* A command starts: generate-day of the cli (MonologueOrchestrator
\* .generate_day), generate_year, or the day, week or month mode of
\* chunked_iterative_generator.py.
StartCommand(kind, d) ==
    /\ driver.state # "running"
    /\ runs < MaxRuns
    /\ runs' = runs + 1
    /\ driver' = [kind |-> kind, state |-> "running", dates |-> RangeOf(kind, d),
                  pos |-> 1, attempted |-> {}, day_files |-> <<>>]
    /\ UNCHANGED <<disk, manifest, stitch_out, stitch_range, stitches>>

\* The command after the day at driver.pos: on to the next day, or done.
Advance(d, generated) ==
    [driver EXCEPT
       !.attempted = @ \cup {d},
       !.day_files = IF generated THEN Append(@, d) ELSE @,
       !.pos = @ + 1,
       !.state = IF driver.pos = Len(driver.dates) THEN "done" ELSE "running"]

\* The day at driver.pos is generated and persisted.  The orchestrator
\* writes the day file ('w') and appends the manifest line;
\* generate_day_chunked writes the day file ('w') and nothing else.
DayPersisted ==
    /\ driver.state = "running"
    /\ LET d == driver.dates[driver.pos]
           path == DayPath(driver.kind, d)
       IN /\ disk' = [disk EXCEPT ![path] = <<[date |-> d, content |-> runs]>>]
          /\ manifest' = IF driver.kind \in {"day", "year"}
                         THEN Append(manifest, [date |-> d, file |-> path,
                                                minutes |-> HoursPerDay * MinutesPerHour])
                         ELSE manifest
          /\ driver' = Advance(d, TRUE)
    /\ UNCHANGED <<runs, stitch_out, stitch_range, stitches>>

\* The generation of the day at driver.pos raises before anything is
\* written.  generate_year catches the exception and goes on; nothing in
\* generate_week, generate_month or the single-day commands catches it.
DayRaises ==
    /\ driver.state = "running"
    /\ LET d == driver.dates[driver.pos]
       IN driver' = IF driver.kind = "year" THEN Advance(d, FALSE)
                    ELSE [driver EXCEPT !.attempted = @ \cup {d}, !.state = "raised"]
    /\ UNCHANGED <<disk, manifest, runs, stitch_out, stitch_range, stitches>>

\* The date ranges stitch_days is given: none, or <<start, end>>.
StitchRanges == { <<>>, <<1, 1>>, <<2, 3>> }

\* stitch_days, the loop over the manifest: the day data of every line whose
\* date is in the range, in the order of the lines.
RECURSIVE StitchedData(_, _, _)
StitchedData(lines, files, date_range) ==
    IF lines = <<>> THEN <<>>
    ELSE LET entry == Head(lines)
             rest == StitchedData(Tail(lines), files, date_range)
         IN IF date_range # <<>> /\ ~(date_range[1] <= entry.date /\ entry.date <= date_range[2])
            THEN rest
            ELSE <<files[entry.file][1]>> \o rest

\* Mutant: the output file is opened for appending.
AppendOutput(old, data) == old \o data

\* with open(output_path, 'w'): json.dump(stitched_data, f)
WriteOutput(old, data) == data

\* stitch_days(manifest_path, output_path, date_range)
StitchDays(date_range) ==
    /\ driver.state # "running"
    /\ stitches < MaxStitches
    /\ stitch_out' = WriteOutput(stitch_out, StitchedData(manifest, disk, date_range))
    /\ stitch_range' = date_range
    /\ stitches' = stitches + 1
    /\ UNCHANGED <<disk, manifest, driver, runs>>

DRNext ==
    \/ (\E kind \in {"day", "chunked_day"} : \E d \in DayArguments :
          StartCommand(kind, d) /\ UNCHANGED <<tpVars, orRest, memVars, plVars, extVars>>)
    \/ (\E kind \in {"year", "week", "month"} :
          StartCommand(kind, 1) /\ UNCHANGED <<tpVars, orRest, memVars, plVars, extVars>>)
    \/ (DayPersisted /\ UNCHANGED <<tpVars, orRest, memVars, plVars, extVars>>)
    \/ (DayRaises /\ UNCHANGED <<tpVars, orRest, memVars, plVars, extVars>>)

\* The commands of the cli on one output directory: the generation commands
\* that write the manifest, and stitch.
STNext ==
    \/ (\E d \in DayArguments :
          StartCommand("day", d) /\ UNCHANGED <<tpVars, orRest, memVars, plVars, extVars>>)
    \/ (StartCommand("year", 1) /\ UNCHANGED <<tpVars, orRest, memVars, plVars, extVars>>)
    \/ (DayPersisted /\ UNCHANGED <<tpVars, orRest, memVars, plVars, extVars>>)
    \/ (DayRaises /\ UNCHANGED <<tpVars, orRest, memVars, plVars, extVars>>)
    \/ (\E date_range \in StitchRanges :
          StitchDays(date_range) /\ UNCHANGED <<tpVars, orRest, memVars, plVars, extVars>>)

(***************************************************************************)
(* The clock of the two-pass client: _rate_limit and the sleeps of         *)
(* _call_openai_with_retry.  Time is counted in ticks; only the time since  *)
(* last_request_time and since the start of the last request is kept, and  *)
(* both saturate.  A request takes at least one tick.                       *)
(***************************************************************************)
TicksPerSecond == 4

MinRequestInterval == 1

RateLimitBase == 2

OtherErrorWait == 1

Seconds(s) == s * TicksPerSecond

Saturation == Seconds(2 * MinRequestInterval)

Saturate(t) == Min(t, Saturation)

\* How long a request takes, and how long the caller takes between two calls.
Durations == 1 .. Seconds(MinRequestInterval)

IdleTimes == 0 .. Seconds(MinRequestInterval)

Outcomes == {"content", "rate_limit", "token_limit", "api_error"}

RTInit ==
    rate = [pc |-> "idle", attempt |-> 0, since_last |-> Saturation,
            since_start |-> Saturation, gap |-> Saturation, waits |-> <<>>]

\* The sleep of _rate_limit when time_since_last has passed.
RateLimitSleep(time_since_last) ==
    IF time_since_last < Seconds(MinRequestInterval)
    THEN Seconds(MinRequestInterval) - time_since_last
    ELSE 0

\* The wait of the except branch, in seconds: -1 when the loop is left
\* without a sleep.
WaitAfter(error, attempt) ==
    IF error = "rate_limit" THEN (2 ^ attempt) * RateLimitBase
    ELSE IF error = "token_limit" THEN -1
    ELSE IF attempt = MaxAttempts - 1 THEN -1
    ELSE OtherErrorWait

\* The waits of ConsciousnessGenerator._call_openai before retry k (the
\* request of attempt k): the sleep of the except branch of attempt k-1 and
\* the sleep at the top of attempt k.
OrchWaitBeforeRetry(k) == 2 ^ (k - 1) + 2 ^ k

\* _call_openai_with_retry is called after the caller spent idle ticks:
\* _rate_limit sleeps if needed and sets last_request_time, then the request
\* of attempt 0 starts.
CallStarts(idle) ==
    /\ rate.pc = "idle"
    /\ LET sleep == RateLimitSleep(Saturate(rate.since_last + idle))
       IN rate' = [pc |-> "in_flight", attempt |-> 0, since_last |-> 0,
                   since_start |-> 0,
                   gap |-> Saturate(rate.since_start + idle + sleep),
                   waits |-> <<>>]

\* The request of the running attempt ends after dur ticks, with content or
\* with an error; after an error the client sleeps and sends the next
\* request, or leaves the loop and returns the fallback.
RequestEnds(dur, outcome) ==
    /\ rate.pc = "in_flight"
    /\ LET wait == IF outcome = "content" THEN -1 ELSE WaitAfter(outcome, rate.attempt)
           slept == IF wait < 0 THEN 0 ELSE Seconds(wait)
           again == outcome # "content" /\ wait >= 0 /\ rate.attempt < MaxAttempts - 1
       IN rate' = [pc |-> IF again THEN "in_flight" ELSE "idle",
                   attempt |-> IF again THEN rate.attempt + 1 ELSE rate.attempt,
                   since_last |-> Saturate(rate.since_last + dur + slept),
                   since_start |-> IF again THEN 0 ELSE Saturate(rate.since_start + dur + slept),
                   gap |-> IF again THEN Saturate(dur + slept) ELSE rate.gap,
                   waits |-> IF again THEN Append(rate.waits, wait) ELSE rate.waits]

RTNext ==
    \/ (\E idle \in IdleTimes : CallStarts(idle)
          /\ UNCHANGED <<tpVars, orVars, memVars, plVars, drVars, invocation, fxVars, week_run, partVars>>)
    \/ (\E dur \in Durations : \E outcome \in Outcomes : RequestEnds(dur, outcome)
          /\ UNCHANGED <<tpVars, orVars, memVars, plVars, drVars, invocation, fxVars, week_run, partVars>>)

(***************************************************************************)
(* The entry points that take a date or a year: generate-day and           *)
(* generate-year of the cli, and generate_day_chunked.  A date argument is  *)
(* given by its form.                                                      *)
(***************************************************************************)
FirstYear == 1

LastYear == 5

DateForms == {"YYYY-MM-DD", "YYYY-M-D", "YYYYMMDD", "text"}

YearArguments == {FirstYear - 1, FirstYear, LastYear, LastYear + 1}

\* datetime.strptime(s, "%Y-%m-%d"): the leading zero of %m and %d is
\* optional.
Strptime(form) == form \in {"YYYY-MM-DD", "YYYY-M-D"}

\* date.fromisoformat(s): the verdicts it can give.  The basic format
\* YYYYMMDD is accepted from Python 3.11 on and rejected before.
FromIsoformat(form) ==
    IF form = "YYYY-MM-DD" THEN {TRUE}
    ELSE IF form = "YYYYMMDD" THEN {TRUE, FALSE}
    ELSE {FALSE}

NoEntry == [command |-> "none", argument |-> "none", state |-> "none"]

ENInit == invocation = NoEntry

Verdict(accepted) == IF accepted THEN "accepted" ELSE "rejected"

\* cli generate_day: the date is parsed, then the orchestrator runs.
CliGenerateDay(form) ==
    /\ invocation.state = "none"
    /\ \E accepted \in FromIsoformat(form) :
         invocation' = [command |-> "generate_day", argument |-> form,
                   state |-> Verdict(accepted)]

\* cli generate_year: the year is validated, then the orchestrator runs.
CliGenerateYear(year) ==
    /\ invocation.state = "none"
    /\ invocation' = [command |-> "generate_year", argument |-> year,
                 state |-> Verdict(~(year < FirstYear \/ year > LastYear))]

\* generate_day_chunked: strptime is the first statement that can fail.
EnterGenerateDayChunked(form) ==
    /\ invocation.state = "none"
    /\ invocation' = [command |-> "generate_day_chunked", argument |-> form,
                 state |-> Verdict(Strptime(form))]

ENNext ==
    \/ (\E form \in DateForms : CliGenerateDay(form)
          /\ UNCHANGED <<tpVars, orVars, memVars, plVars, drVars, rate, fxVars, week_run, partVars>>)
    \/ (\E year \in YearArguments : CliGenerateYear(year)
          /\ UNCHANGED <<tpVars, orVars, memVars, plVars, drVars, rate, fxVars, week_run, partVars>>)
    \/ (\E form \in DateForms : EnterGenerateDayChunked(form)
          /\ UNCHANGED <<tpVars, orVars, memVars, plVars, drVars, rate, fxVars, week_run, partVars>>)
    \/ (invocation.state = "accepted" /\ invocation.command = "generate_day_chunked" /\ TPNext)
    \/ (invocation.state = "accepted" /\ invocation.command \in {"generate_day", "generate_year"}
          /\ ORNext)

(***************************************************************************)
(* The fix pass: validate_developmental_appropriateness with fix_content   *)
(* and apply_psychologist_fixes.  A path is the sequence of its pieces; the *)
(* data of a day file is followed for one minute record: its                *)
(* consciousness_components and provenance.psychologist_fixes.              *)
(***************************************************************************)
MaxValidations == 2

\* str.replace(old, new) on a path: every piece equal to old is replaced.
Replace(path, old, new) ==
    [i \in 1 .. Len(path) |-> IF path[i] = old THEN new ELSE path[i]]

FixedFilePath(file_path) == Replace(file_path, ".json", "_fixed.json")

\* The path the fixed data is written to.
WriteTarget(file_path) == FixedFilePath(file_path)

DayFilePaths ==
    { <<"day_2025-01-01", ".json">>,
      <<"day_2025-01-01", "_chunked", ".json">>,
      <<"day_2025-01-01", ".JSON">> }

FsPaths == DayFilePaths \cup { FixedFilePath(p) : p \in DayFilePaths }

OriginalData ==
    [components |-> [vocalization |-> "mama", motor_behavior |-> "walking"],
     psychologist_fixes |-> -1]

\* The edits a review can suggest.
Edits ==
    { [field |-> "vocalization", new_value |-> "coo"],
      [field |-> "motor_behavior", new_value |-> "kicking"],
      [field |-> "reflective_awareness", new_value |-> "none"],
      [field |-> "vocalization"] }

SuggestedEdits == { <<>> } \cup { <<e>> : e \in Edits } \cup { <<e, f>> : e, f \in Edits }

\* apply_psychologist_fixes on a copy of the data: the edits in order, then
\* the count of the fixes in the provenance.
RECURSIVE ApplyEdits(_, _)
ApplyEdits(data, suggested_edits) ==
    IF suggested_edits = <<>> THEN data
    ELSE LET edit == Head(suggested_edits)
             applies == /\ "new_value" \in DOMAIN edit
                        /\ edit.field \in DOMAIN data.components
             next == IF applies
                     THEN [data EXCEPT !.components[edit.field] = edit.new_value,
                                       !.psychologist_fixes = @ + 1]
                     ELSE data
         IN ApplyEdits(next, Tail(suggested_edits))

ApplyPsychologistFixes(data, suggested_edits) ==
    ApplyEdits([data EXCEPT !.psychologist_fixes = 0], suggested_edits)

FXInit ==
    /\ fs = [p \in FsPaths |-> IF p \in DayFilePaths THEN <<OriginalData>> ELSE <<>>]
    /\ validations = 0

\* validate_developmental_appropriateness(file_path, use_llm, fix_content):
\* the file is read; with use_llm the review is requested, and its response
\* either parses, giving the suggested edits, or does not.
ValidateDevelopmentalAppropriateness(file_path, use_llm, fix_content, parses, suggested_edits) ==
    /\ validations < MaxValidations
    /\ fs[file_path] # <<>>
    /\ validations' = validations + 1
    /\ IF use_llm /\ parses /\ fix_content /\ suggested_edits # <<>>
       THEN fs' = [fs EXCEPT ![WriteTarget(file_path)] =
                       <<ApplyPsychologistFixes(fs[file_path][1], suggested_edits)>>]
       ELSE UNCHANGED fs

FXNext ==
    \/ (\E file_path \in FsPaths : \E use_llm, fix_content, parses \in BOOLEAN :
        \E suggested_edits \in SuggestedEdits :
          ValidateDevelopmentalAppropriateness(file_path, use_llm, fix_content, parses,
                                               suggested_edits)
          /\ UNCHANGED <<tpVars, orVars, memVars, plVars, drVars, rate, invocation, week_run, partVars>>)

(***************************************************************************)
(* ChunkedIterativeGenerator.generate_week and generate_month, followed     *)
(* through the steps of each generate_day.  A date is a day number, the     *)
(* birthdate being day 0.  What the days yield is fixed by a pattern given  *)
(* with the command; recent is the memory file's recent lists.              *)
(***************************************************************************)
\* generate_day of the iterative generator, step by step: its own
\* load_memory; generate_day_chunked with the two chunks, each followed by
\* update_memory and save_memory, and the day file; its own update_memory
\* and save_memory.
DaySteps == <<"load_memory", "chunk1_saved", "chunk2_saved", "day_file", "memory_saved">>

WeekStartDates == {1, 5}

YieldPatterns == {"none", "first_day", "every_day", "twice_a_day"}

\* The milestones (and the activities) update_memory extracts from the day.
DayYield(pattern, start_date, d) ==
    IF pattern = "every_day" THEN <<d>>
    ELSE IF pattern = "twice_a_day" THEN <<d, d>>
    ELSE IF pattern = "first_day" /\ d = start_date THEN <<d>>
    ELSE <<>>

\* A generate_month whose weeks start 8 days apart.
WeekStartEightDays(start_date, week_num) == start_date + week_num * (DaysPerWeek + 1)

\* generate_month: week_start = start_date_obj + timedelta(weeks=week_num)
WeekStart(start_date, week_num) == start_date + week_num * DaysPerWeek

\* generate_week: current_date = start_date_obj + timedelta(days=i)
CurrentDate(week_start, i) == week_start + i

\* generate_day_chunked: age_weeks = age_days // 7
AgeWeeks(d) == d \div DaysPerWeek

NoRecent == [milestones |-> <<>>, activities |-> <<>>]

NoWeekRun ==
    [mode |-> "none", state |-> "idle", start_date |-> 0, pattern |-> "none",
     week_num |-> 0, i |-> 0, step |-> 0, log |-> <<>>, days |-> <<>>,
     recent |-> NoRecent, weeks |-> <<>>]

WKInit == week_run = NoWeekRun

SetMin(S) == CHOOSE x \in S : \A y \in S : x <= y

SetMax(S) == CHOOSE x \in S : \A y \in S : y <= x

\* _generate_week_summary: for each day the memory file is loaded, and its
\* recent lists are collected.
GenerateWeekSummary(days, recent) ==
    LET age_progression == { days[j].age_weeks : j \in 1 .. Len(days) }
        all_milestones == Concat([j \in 1 .. Len(days) |-> recent.milestones])
        all_activities == Concat([j \in 1 .. Len(days) |-> recent.activities])
    IN [age_range |-> <<SetMin(age_progression), SetMax(age_progression)>>,
        milestones_achieved |-> SeqToSet(all_milestones),
        activities_explored |-> SeqToSet(all_activities),
        days_generated |-> Len(days)]

\* generate_week or generate_month is called.
StartWeekRun(mode, start_date, pattern) ==
    /\ week_run.state = "idle"
    /\ week_run' = [NoWeekRun EXCEPT !.mode = mode, !.state = "running",
                                     !.start_date = start_date, !.pattern = pattern]

\* The next step of the day that is being generated.  With the last step
\* the day is appended to the days of the week; after day 7 the week summary
\* is made and the week is appended, and the command returns or goes on to
\* the next week.
WeekDayStep ==
    /\ week_run.state = "running"
    /\ LET week_start == WeekStart(week_run.start_date, week_run.week_num)
           d == CurrentDate(week_start, week_run.i)
           step == week_run.step + 1
           logged == Append(week_run.log, <<d, DaySteps[step]>>)
           yield == DayYield(week_run.pattern, week_run.start_date, d)
           recent == [milestones |-> LastN(yield, MilestoneCap),
                      activities |-> LastN(yield, ActivityCap)]
           days == Append(week_run.days,
                          [date |-> d, age_weeks |-> AgeWeeks(d), milestones |-> yield,
                           activities |-> yield])
           week_data == [start_date |-> week_start, days |-> days,
                         week_summary |-> GenerateWeekSummary(days, recent)]
           last_week == week_run.mode = "week" \/ week_run.week_num = WeeksPerMonth - 1
       IN IF step < Len(DaySteps)
          THEN week_run' = [week_run EXCEPT !.step = step, !.log = logged]
          ELSE IF week_run.i < DaysPerWeek - 1
          THEN week_run' = [week_run EXCEPT !.step = 0, !.log = logged, !.i = @ + 1,
                                            !.days = days, !.recent = recent]
          ELSE week_run' = [week_run EXCEPT !.step = 0, !.log = logged, !.i = 0,
                                            !.days = <<>>, !.recent = recent,
                                            !.weeks = Append(@, week_data),
                                            !.week_num = IF last_week THEN @ ELSE @ + 1,
                                            !.state = IF last_week THEN "done" ELSE @]

\* The day that is being generated raises: nothing in generate_week or
\* generate_month catches it.
WeekDayRaises ==
    /\ week_run.state = "running"
    /\ week_run' = [week_run EXCEPT !.state = "raised"]

WKNext ==
    \/ (\E mode \in {"week", "month"} : \E start_date \in WeekStartDates :
        \E pattern \in YieldPatterns :
          StartWeekRun(mode, start_date, pattern)
          /\ UNCHANGED <<tpVars, orVars, memVars, plVars, drVars, rate, invocation, fxVars, partVars>>)
    \/ (WeekDayStep
          /\ UNCHANGED <<tpVars, orVars, memVars, plVars, drVars, rate, invocation, fxVars, partVars>>)
    \/ (WeekDayRaises
          /\ UNCHANGED <<tpVars, orVars, memVars, plVars, drVars, rate, invocation, fxVars, partVars>>)

(***************************************************************************)
(* The fallback synthesis on its own: two calls, each with an hour plan.   *)
(***************************************************************************)
\* What the fallback reads of an hour plan: the hour, the sleep state and the
\* year of the vocabulary period.
FallbackPlans ==
    [hour : Hours, sleep_state : SleepStates, vocabulary_year : VocabularyYears]

NoFallbackCall == [state |-> "none"]

FBInit == fallback_calls = [first |-> NoFallbackCall, second |-> NoFallbackCall]

\* _create_fallback_hour_chunk(hour_plan) with its entries, and
\* _create_fallback_external_reality for the same hour.
FallbackCall(hour_plan) ==
    LET chunk == CreateFallbackHourChunk(hour_plan.hour, hour_plan.vocabulary_year)
    IN [state |-> IF chunk.source = "exception" THEN "raised" ELSE "returned",
        hour_plan |-> hour_plan,
        chunk |-> chunk,
        entries |-> IF chunk.source = "exception" THEN <<>>
                    ELSE [m \in 0 .. (MinutesPerHour - 1) |->
                            FallbackMinuteEntry(hour_plan.hour, hour_plan.sleep_state, m)],
        external_reality |-> [m \in 0 .. (MinutesPerHour - 1) |->
                                FallbackExternalEntry(hour_plan.hour, m)]]

FirstFallbackCall(hour_plan) ==
    /\ fallback_calls.first.state = "none"
    /\ fallback_calls' = [fallback_calls EXCEPT !.first = FallbackCall(hour_plan)]

SecondFallbackCall(hour_plan) ==
    /\ fallback_calls.first.state # "none"
    /\ fallback_calls.second.state = "none"
    /\ fallback_calls' = [fallback_calls EXCEPT !.second = FallbackCall(hour_plan)]

FBNext ==
    \/ (\E hour_plan \in FallbackPlans : FirstFallbackCall(hour_plan) /\ UNCHANGED baseVars)
    \/ (\E hour_plan \in FallbackPlans : SecondFallbackCall(hour_plan) /\ UNCHANGED baseVars)

EXInit ==
    /\ RTInit
    /\ ENInit
    /\ FXInit
    /\ WKInit
    /\ FBInit

(***************************************************************************)
(* Specifications.                                                         *)
(***************************************************************************)
Init == TPInit /\ ORInit /\ MemInit /\ PLInit /\ DRInit /\ EXInit

Next == TPNext \/ ORNext

\* One run executes one of the two pipelines.
Spec == Init /\ [][Next]_vars

SpecTwoPass == Init /\ [][TPNext]_vars

SpecOrch == Init /\ [][ORNext]_vars

\* The concurrent pipeline with its scheduling: the event loop runs a task
\* that is ready (a waiter of the semaphore is woken when a slot is free,
\* the code after gather runs when the tasks are done) and the service
\* answers every request, so a step of the day that can be taken is taken.
SpecOrchFair == Init /\ [][ORNext]_vars /\ WF_vars(ORNext)

\* The memory over one day, starting from a memory file left by earlier runs.
InitMem ==
    /\ day_pc = "idle" /\ hour = 0 /\ stage = "none" /\ call = NoCall
    /\ in_flight = 0
    /\ external_reality_hours = NoResults
    /\ internal_monologue_hours = NoResults
    /\ internal_input = NoResults
    /\ faulty = 0
    /\ memory = DefaultMemory
    /\ memory_file \in EarlierFiles
    /\ day_file = <<>>
    /\ ORInit
    /\ MemInit
    /\ PLInit
    /\ DRInit
    /\ EXInit

SpecMem == InitMem /\ [][MemNext]_vars

\* The planner on every input tried.
InitPlan ==
    /\ TPInit /\ ORInit /\ MemInit
    /\ plan_input \in PlanInputs
    /\ plan_runs = [r \in 1 .. 2 |-> <<>>]
    /\ DRInit
    /\ EXInit

SpecPlan == InitPlan /\ [][PLNext]_vars

\* Commands run one after the other on one output directory.
SpecDrive == Init /\ [][DRNext]_vars

\* Generation by the cli and stitching, on one output directory.
SpecStitch == Init /\ [][STNext]_vars

\* The calls of one ChunkedTwoPassGenerator, one after the other, in time.
SpecRate == Init /\ [][RTNext]_vars

\* One invocation of an entry point, and the generation it starts.
SpecEntry == Init /\ [][ENNext]_vars

\* Validation runs with and without the fix pass on the files of a directory.
SpecFix == Init /\ [][FXNext]_vars

\* One generate_week or generate_month.
SpecWeek == Init /\ [][WKNext]_vars

\* The fallback synthesis called twice.
SpecFallback == Init /\ [][FBNext]_vars

(***************************************************************************)
(* The claims.                                                             *)
(***************************************************************************)
FullHour == [i \in 1 .. MinutesPerHour |-> i - 1]

RunningHours == { h \in Hours : task[h] = "running" }

\* The minutes of a result whose record is the service's own.
ServiceMinutes(r) ==
    IF r.source = "service" THEN { r.first + i - 1 : i \in 1 .. r.count } ELSE {}

\* C1: whatever the service did, the result _call_openai_with_retry returns
\* for an hour stage has exactly the minute entries 0..59, each once.
C1_ResultHasSixtyMinutes ==
    call.state = "returned" => Minutes(call.result) = FullHour

\* C2: in MonologueOrchestrator.generate_day, when every service attempt of
\* exactly one hour fails and the other hours succeed, the day completes with
\* 24 chunks: a fallback chunk for the failed hour and the service's chunk
\* for each of the others.
C2_OneFailedHourIsIsolated ==
    \A h \in Hours :
        ( /\ calls[h].outcome = "raised"
          /\ \A g \in Hours \ {h} :
                calls[g].outcome = "returned" /\ calls[g].content = GoodText )
        => /\ orch_pc # "raised"
           /\ orch_pc \in {"save", "manifest", "done"} =>
                \A g \in Hours :
                    hour_chunks[g] = Result(g, 0, MinutesPerHour,
                                            IF g = h THEN "fallback" ELSE "service")

\* C3: in generate_day_chunked no outcome of the service for one hour aborts
\* the day.
C3_NoOutcomeAbortsDay == day_pc # "raised"

\* C4: at every moment the generation calls in flight are at most the
\* configured maximum: the hours inside generate_hour never exceed
\* max_concurrency, and the two-pass pipeline never has more requests in
\* flight than the default maximum.
C4_InFlightBounded ==
    /\ Cardinality(RunningHours) <= max_concurrency
    /\ semaphore >= 0
    /\ in_flight <= DefaultMaxConcurrency

C4_Witness ==
    /\ max_concurrency = MaxConcurrency
    /\ Cardinality(RunningHours) = max_concurrency
    /\ \E h \in Hours : task[h] = "pending"
    /\ \E h \in Hours : task[h] = "done"

\* C5: for every hour the internal stage starts only after the external
\* stage of that hour has returned its result, and it is given exactly that
\* result.
C5_InternalAfterExternal ==
    /\ \A h \in Hours :
          /\ internal_input[h] # NoResult =>
                /\ external_reality_hours[h] # NoResult
                /\ internal_input[h] = external_reality_hours[h]
          /\ internal_monologue_hours[h] # NoResult => internal_input[h] # NoResult
    /\ (stage = "internal" /\ call.state = "running") => internal_input[hour] # NoResult
    /\ (stage = "external" /\ call.state = "running") => internal_input[hour] = NoResult

C5_Witness ==
    \E h \in Hours :
        /\ h > 0
        /\ external_reality_hours[h].source = "fallback"
        /\ internal_input[h] = external_reality_hours[h]
        /\ internal_monologue_hours[h].source = "service"

\* A generation call for an hour of chunk 2 has started.
Chunk2Started ==
    \/ hour > Chunk1End /\ day_pc \in {"calling", "internal_pending"}
    \/ \E h \in Hours : h > Chunk1End /\ external_reality_hours[h] # NoResult

\* C6: no generation call for hours 12..23 starts before hours 0..11 have
\* resolved in both stages and the memory update of chunk 1 has been applied
\* and saved.
C6_Chunk2AfterChunk1Commit ==
    Chunk2Started =>
        /\ \A h \in 0 .. Chunk1End :
              /\ external_reality_hours[h] # NoResult
              /\ internal_monologue_hours[h] # NoResult
        /\ memory_file # <<>>
        /\ \E i \in 1 .. Len(memory_file[1].generation_history) :
              memory_file[1].generation_history[i].range = <<0, Chunk1End>>
        /\ \E i \in 1 .. Len(memory.generation_history) :
              memory.generation_history[i].range = <<0, Chunk1End>>

C6_Witness ==
    /\ hour = Chunk1End + 1
    /\ day_pc = "calling"
    /\ stage = "external"
    /\ in_flight = 1

\* C7: whatever fails, one client call makes at most 3 requests and then
\* ends: _call_openai_with_retry returns the fallback result, _call_openai
\* raises its last error.
C7_AtMostThreeRequests ==
    /\ call.requests <= MaxAttempts
    /\ call.state = "running" => call.attempt < MaxAttempts
    /\ (call.requests = MaxAttempts /\ in_flight = 0) => call.state = "returned"
    /\ (call.state = "returned" /\ call.content = NoText) =>
          call.result = CreateFallback(stage, call.ctx_hour)
    /\ \A h \in Hours :
          /\ calls[h].requests <= MaxAttempts
          /\ calls[h].requests = MaxAttempts => calls[h].outcome # "none"
          /\ calls[h].outcome = "raised" => calls[h].requests = MaxAttempts
          /\ calls[h].outcome # "none" => task[h] = "done"

C7_Witness ==
    /\ call.state = "returned"
    /\ call.requests = MaxAttempts
    /\ call.content = NoText
    /\ call.result.source = "fallback"

\* C8: after a token-limit error on the full-prompt request of a stage, the
\* stage makes a request with the simplified prompt and the lower token
\* budget before it falls back.
C8_TokenLimitGoesToSimplifiedPrompt ==
    (call.state = "returned" /\ call.token_limit) =>
        \E i \in 1 .. Len(call.budgets) : call.budgets[i] = SimplifiedTokens

\* The records 0..n-1 of r are the service's and r has the 60 minutes.
KeepsCompleteRecords(r, n) ==
    /\ Minutes(r) = FullHour
    /\ (0 .. (n - 1)) \subseteq ServiceMinutes(r)

\* C9: for a response truncated in the middle of record m, recovery returns
\* 60 entries in which the complete records 0..m-1 keep the service content
\* and only the missing minutes are placeholders.
C9_TruncationKeepsCompleteRecords ==
    /\ (call.state = "returned" /\ call.content # NoText /\ ~call.content.valid) =>
          KeepsCompleteRecords(call.result, call.content.n)
    /\ \A h \in Hours :
          ( /\ calls[h].outcome = "returned"
            /\ calls[h].content # NoText
            /\ ~calls[h].content.valid ) =>
          KeepsCompleteRecords(hour_chunks[h], calls[h].content.n)

MemoryWithin(m, cap) ==
    /\ Len(m.recent_milestones) <= MilestoneCap
    /\ Len(m.recent_activities) <= ActivityCap
    /\ Cardinality(m.current_routines) <= RoutineCap
    /\ Len(m.generation_history) <= cap

\* C10: after any chunk update and any day update, recent_milestones has at
\* most 5 items, recent_activities at most 10, current_routines at most 15,
\* and generation_history at most 48 entries after a chunk update and at most
\* 30 after a day update.
C10_MemoryBounded ==
    /\ mem_pc \in {"direct_chunk2", "direct_done", "iter_chunk2", "iter_day"} =>
          /\ MemoryWithin(memory, ChunkHistoryCap)
          /\ MemoryWithin(memory_file[1], ChunkHistoryCap)
    /\ mem_pc = "iter_done" =>
          /\ MemoryWithin(iter_memory, DayHistoryCap)
          /\ MemoryWithin(memory_file[1], DayHistoryCap)

C10_Witness ==
    /\ mem_pc = "direct_done"
    /\ Len(memory_file[1].recent_milestones) = MilestoneCap
    /\ Len(memory_file[1].recent_activities) = ActivityCap
    /\ Cardinality(memory_file[1].current_routines) = RoutineCap
    /\ Len(memory_file[1].generation_history) = ChunkHistoryCap

\* The hours of the chunk that hour h belongs to.
ChunkOf(h) ==
    IF h <= Chunk1End THEN 0 .. Chunk1End ELSE (Chunk1End + 1) .. (HoursPerDay - 1)

\* C11: between the start and the end of _generate_chunk the memory and the
\* memory file do not change: they change only when the last hour of the
\* chunk has resolved in both stages and no call is running.
C11_MemoryFrame ==
    [][ (memory' # memory \/ memory_file' # memory_file) =>
          /\ day_pc = "chunk_end"
          /\ in_flight = 0
          /\ call.state = "returned"
          /\ \A h \in ChunkOf(hour) :
                /\ external_reality_hours[h] # NoResult
                /\ internal_monologue_hours[h] # NoResult
          /\ day_pc' \in {"external_pending", "write"} ]_vars

C11_Witness ==
    /\ day_pc = "calling"
    /\ hour = HoursPerDay - 1
    /\ stage = "internal"
    /\ memory # DefaultMemory
    /\ memory_file = <<memory>>
    /\ memory.last_generated_hour = Chunk1End

\* The list a run of plan_day returned.
PlansOf(r) == plan_runs[r][1]

\* The fields of a returned plan other than content_hash.
FieldsOf(p) == [k \in DOMAIN p \ {"content_hash"} |-> p[k]]

NoWeekEntry ==
    WeekMatches(GetWeekIndex(plan_input.target_date.age_days),
                Get(plan_input.timeline_data, "weekly_timeline", <<>>)) = {}

\* C13: when the timeline data has no entry for the computed week index, or
\* no weekly_timeline at all, plan_day returns 24 plans built from the
\* default developmental context, whose vocabulary_period is "1.1".
C13_MissingWeekFallsBack ==
    \A r \in 1 .. 2 :
        (plan_runs[r] # <<>> /\ NoWeekEntry) =>
            /\ Len(PlansOf(r)) = HoursPerDay
            /\ \A i \in 1 .. HoursPerDay :
                  /\ PlansOf(r)[i].developmental_context =
                        GetDevelopmentalContext(DefaultContext)
                  /\ PlansOf(r)[i].developmental_context.vocabulary_period = "1.1"

C13_Witness ==
    /\ plan_runs[1] # <<>>
    /\ NoWeekEntry
    /\ Get(plan_input.timeline_data, "weekly_timeline", <<>>) # <<>>
    /\ plan_input.target_date.age_days = 364

\* C14: whenever a day generation completes, in MonologueOrchestrator
\* .generate_day or in generate_day_chunked, the day artifact exists and
\* exactly one manifest line was appended for the day.
C14_PersistedDayHasManifestLine ==
    /\ orch_pc = "done" => (orch_day_file # <<>> /\ Len(manifest) = 1)
    /\ day_pc = "done" => (day_file # <<>> /\ Len(manifest) = 1)

\* C15: a day artifact is written once: after it has been written, no later
\* generation run for the same date overwrites or changes it.
C15_ArtifactWrittenOnce ==
    [][ \A p \in Paths : disk[p] # <<>> => disk'[p] = disk[p] ]_vars

\* C16: stitch_days is a pure aggregate: what it writes is fixed by the
\* manifest, the day artifacts and the date range, so a second run on the
\* same manifest and range writes the same output; it changes neither the
\* manifest nor a day artifact and starts no generation.
C16_StitchIsPure ==
    [][ (stitches' # stitches) =>
          /\ stitch_out' = StitchedData(manifest, disk, stitch_range')
          /\ manifest' = manifest
          /\ disk' = disk
          /\ runs' = runs
          /\ driver' = driver ]_vars

C16_Witness ==
    /\ stitches = MaxStitches
    /\ stitch_range = <<2, 3>>
    /\ Len(stitch_out) = 2
    /\ Len(manifest) > Len(stitch_out)
    /\ runs = MaxRuns

\* C17: when the generation of one day raises, generate_week, generate_month
\* and generate_year go on to the next date: every day of the range is
\* attempted.
C17_EveryDayAttempted ==
    (driver.kind \in {"year", "week", "month"} /\ driver.state \in {"done", "raised"}) =>
        /\ driver.state = "done"
        /\ driver.attempted = SeqToSet(driver.dates)

\* Full fallback synthesis ran for hour h: _call_openai raised, or the
\* content it returned did not parse.
FallbackSynthesized(h) ==
    /\ task[h] = "done"
    /\ \/ calls[h].outcome = "raised"
       \/ /\ calls[h].outcome = "returned"
          /\ ParseHourResponse(calls[h].content, h).source = "exception"

\* C18: full fallback synthesis is total: for every hour and every
\* vocabulary period _create_fallback_hour_chunk returns a chunk with the 60
\* entries of minutes 0..59 and never raises.
C18_FallbackSynthesisTotal ==
    \A h \in Hours :
        FallbackSynthesized(h) =>
            /\ hour_chunks[h].source = "fallback"
            /\ Minutes(hour_chunks[h]) = FullHour

\* The value of the provenance key "source" of a stored hour result: the
\* result dicts and HourChunk have no such key.
ProvenanceTag(r) == "absent"

\* C19: every hour result stored in a day carries a provenance tag source in
\* {service, repaired, fallback} that names the tier that produced it.
C19_ResultsCarryProvenance ==
    \A h \in Hours :
        /\ external_reality_hours[h] # NoResult =>
              /\ ProvenanceTag(external_reality_hours[h]) \in {"service", "repaired", "fallback"}
              /\ ProvenanceTag(external_reality_hours[h]) = external_reality_hours[h].source
        /\ internal_monologue_hours[h] # NoResult =>
              /\ ProvenanceTag(internal_monologue_hours[h]) \in {"service", "repaired", "fallback"}
              /\ ProvenanceTag(internal_monologue_hours[h]) = internal_monologue_hours[h].source
        /\ hour_chunks[h].source \in {"service", "fallback"} =>
              /\ ProvenanceTag(hour_chunks[h]) \in {"service", "repaired", "fallback"}
              /\ ProvenanceTag(hour_chunks[h]) = hour_chunks[h].source

\* C20: a response that was received but is structurally unusable never
\* causes another service request for the same unit, in either client: once
\* a call has received content, it makes no further request.
C20_NoRequestAfterContent ==
    [][ /\ \A h \in Hours :
              calls[h].content # NoText => calls'[h].requests = calls[h].requests
        /\ (call.content # NoText /\ call'.ctx_hour = call.ctx_hour /\ stage' = stage)
              => call'.requests = call.requests ]_vars

\* C21: any two consecutive service requests of one ChunkedTwoPassGenerator
\* start at least min_request_interval apart, a retry followed by the first
\* attempt of the next call included.
C21_RequestsSpaced == rate.gap >= Seconds(MinRequestInterval)

\* C22: in both clients the wait before retry k+1 is twice the wait before
\* retry k, for every kind of retryable failure.
C22_BackoffDoubles ==
    /\ \A k \in 1 .. MaxAttempts - 2 :
          OrchWaitBeforeRetry(k + 1) = 2 * OrchWaitBeforeRetry(k)
    /\ \A k \in 1 .. Len(rate.waits) - 1 :
          rate.waits[k + 1] = 2 * rate.waits[k]

\* C23: a day artifact is written only after all 24 hours of the day have
\* resolved (both stages in the two-pass pipeline); before that point no day
\* artifact is created or changed.
C23_DayFileOnlyAfterAllHours ==
    [][ /\ day_file' # day_file =>
              \A h \in Hours : /\ external_reality_hours[h] # NoResult
                               /\ internal_monologue_hours[h] # NoResult
        /\ orch_day_file' # orch_day_file =>
              \A h \in Hours : /\ task[h] = "done"
                               /\ hour_chunks[h].source \in {"service", "fallback"} ]_vars

C23_Witness ==
    /\ day_file # <<>>
    /\ \A h \in Hours : internal_monologue_hours[h] # NoResult

\* The argument of the invocation: a date in YYYY-MM-DD format, a year in
\* 1..5.
ValidArgument ==
    IF invocation.command = "generate_year"
    THEN invocation.argument \in FirstYear .. LastYear
    ELSE invocation.argument = "YYYY-MM-DD"

\* C24: a target date that is not in YYYY-MM-DD format, or a year outside
\* 1..5, is rejected before any service request is made and before any day
\* artifact, manifest line or memory file is written.
C24_InvalidArgumentRejected ==
    (invocation.state # "none" /\ ~ValidArgument) =>
        /\ invocation.state = "rejected"
        /\ in_flight = 0 /\ day_pc = "idle" /\ orch_pc = "idle"
        /\ day_file = <<>> /\ orch_day_file = <<>>
        /\ manifest = <<>> /\ memory_file = <<>>

\* The entries of the timeline for the week (days since birth // 7) + 1 of
\* the target date, by position.
EntriesOfTheWeek ==
    LET weekly_timeline == IF "weekly_timeline" \in DOMAIN plan_input.timeline_data
                           THEN plan_input.timeline_data.weekly_timeline ELSE <<>>
    IN { i \in 1 .. Len(weekly_timeline) :
           /\ "week_index" \in DOMAIN weekly_timeline[i]
           /\ weekly_timeline[i].week_index = (plan_input.target_date.age_days \div 7) + 1 }

FirstEntryOfTheWeek ==
    plan_input.timeline_data.weekly_timeline[
        CHOOSE i \in EntriesOfTheWeek : \A j \in EntriesOfTheWeek : i <= j]

\* C25: when the timeline has an entry for the week (days since birth // 7)
\* + 1, each of the 24 hour plans of plan_day takes
\* developmental_context.vocabulary_period from that entry, not from the
\* hardcoded default "1.1".
C25_VocabularyPeriodFromWeekEntry ==
    \A r \in 1 .. 2 :
        (/\ plan_runs[r] # <<>>
         /\ EntriesOfTheWeek # {}
         /\ "vocabulary_period" \in DOMAIN FirstEntryOfTheWeek) =>
            /\ Len(PlansOf(r)) = HoursPerDay
            /\ \A i \in 1 .. HoursPerDay :
                  PlansOf(r)[i].developmental_context.vocabulary_period =
                      FirstEntryOfTheWeek.vocabulary_period

C25_Witness ==
    /\ plan_runs[2] # <<>>
    /\ EntriesOfTheWeek # {}
    /\ plan_input.target_date.age_days = 7
    /\ FirstEntryOfTheWeek.vocabulary_period = "1.2"
    /\ PlansOf(2)[15].developmental_context.vocabulary_period # "1.1"

\* C26: the fix pass never changes the original day artifact: the edits are
\* applied to a copy written to a separate *_fixed.json file, and the file
\* that was validated has the same content before and after.
C26_FixPassKeepsOriginal ==
    [][ \A p \in DayFilePaths : fs'[p] = fs[p] ]_vars

\* C27: the recovery strategies run in order: when the direct parse of a
\* response fails, truncation repair is tried next, then partial extraction,
\* and full fallback synthesis is used only when neither salvages a record.
C27_RecoveryInOrder ==
    (call.state = "returned" /\ call.content # NoText /\ ~call.content.valid) =>
        /\ Len(RecoveryOrder(call.content)) >= 3
        /\ SubSeq(RecoveryOrder(call.content), 1, 3) =
               <<"direct", "truncation_repair", "partial_extraction">>
        /\ call.result.source = "fallback" => call.content.n = 0

\* C28: recent_milestones and recent_activities are ring buffers over the
\* run: after any sequence of chunk updates they hold the last 5 milestones
\* and the last 10 activities observed in all updates so far; an update whose
\* chunk yields fewer items keeps the earlier ones.
C28_RecentListsAreRingBuffers ==
    mem_pc \in {"direct_chunk2", "direct_done", "iter_chunk2", "iter_day"} =>
        /\ Len(day_lists.milestones) >= MilestoneCap =>
              memory.recent_milestones = LastN(day_lists.milestones, MilestoneCap)
        /\ Len(day_lists.activities) >= ActivityCap =>
              memory.recent_activities = LastN(day_lists.activities, ActivityCap)

\* The number of dates generate_week or generate_month goes through.
DatesOfTheRun == IF week_run.mode = "week" THEN 7 ELSE 28

\* C29: generate_week generates exactly the 7 consecutive dates starting at
\* start_date, in increasing order, and generate_month exactly 28
\* consecutive dates; every step of a day, its memory saves included, comes
\* before the first step of the next day.  (A run that a raising day ends has
\* done so for the dates before it.)
C29_ConsecutiveDaysInOrder ==
    /\ \A k \in 1 .. Len(week_run.log) :
          week_run.log[k] = <<week_run.start_date + ((k - 1) \div Len(DaySteps)),
                              DaySteps[((k - 1) % Len(DaySteps)) + 1]>>
    /\ Len(week_run.log) <= DatesOfTheRun * Len(DaySteps)
    /\ week_run.state = "done" => Len(week_run.log) = DatesOfTheRun * Len(DaySteps)

C29_Witness ==
    /\ week_run.mode = "month"
    /\ week_run.state = "done"
    /\ week_run.start_date = 5
    /\ Len(week_run.weeks) = 4
    /\ week_run.log[Len(week_run.log)] = <<32, "memory_saved">>

\* The milestones and the activities observed in the days of a week.
ObservedIn(days, list) ==
    UNION { SeqToSet(days[j][list]) : j \in 1 .. Len(days) }

\* C30: the week summary's milestones_achieved and activities_explored are
\* the deduplicated milestones and activities observed in all 7 days of the
\* week, age_range spans the minimum to the maximum age_weeks of the days,
\* and days_generated is 7.
C30_WeekSummaryCoversTheWeek ==
    \A k \in 1 .. Len(week_run.weeks) :
        LET w == week_run.weeks[k]
        IN /\ w.week_summary.milestones_achieved = ObservedIn(w.days, "milestones")
           /\ w.week_summary.activities_explored = ObservedIn(w.days, "activities")
           /\ w.week_summary.age_range[1] = AgeWeeks(w.start_date)
           /\ w.week_summary.age_range[2] = AgeWeeks(w.start_date + 6)
           /\ w.week_summary.days_generated = 7

\* The template-chosen fields of two minutes of entries that are congruent
\* modulo k are identical.
RotatesBy(entries, k) ==
    \A m \in DOMAIN entries : \A n \in DOMAIN entries :
        m % k = n % k => entries[m].template = entries[n].template

\* C31: full fallback synthesis rotates content by minute mod 8: in a chunk
\* returned by _create_fallback_hour_chunk the template-chosen fields of two
\* minutes congruent mod 8 are identical, the entries of
\* _create_fallback_external_reality differ in the minute alone, and two
\* calls with the same hour plan give identical results.
C31_FallbackRotatesModEight ==
    LET first == fallback_calls.first
        second == fallback_calls.second
    IN /\ first.state = "returned" =>
            /\ RotatesBy(first.entries, Variations)
            /\ \A m \in DOMAIN first.entries : first.entries[m].minute = m
            /\ \A m \in DOMAIN first.external_reality :
                  [first.external_reality[m] EXCEPT !.minute = 0]
                     = first.external_reality[0]
       /\ second.state = "returned" => RotatesBy(second.entries, Variations)
       /\ (second.state # "none" /\ first.hour_plan = second.hour_plan) =>
            first = second

\* Two calls with the same hour plan returned chunks of 60 entries, in an
\* hour whose content is not the content of rest.
C31_Witness ==
    /\ fallback_calls.first.state = "returned"
    /\ fallback_calls.second.state = "returned"
    /\ fallback_calls.first.hour_plan = fallback_calls.second.hour_plan
    /\ FallbackActivity(fallback_calls.first.hour_plan.hour,
                        fallback_calls.first.hour_plan.sleep_state) = "feeding"
    /\ DOMAIN fallback_calls.second.entries = 0 .. (MinutesPerHour - 1)

\* The ages in years of the target dates tried.
AgeYearsTried == {a \div DaysPerYear : a \in AgeDays} \cup (0 .. 6)

\* What the sleep table says of hour h at an age: asleep in the sleep_hours
\* of the tier of the age, awake otherwise and at an age without a tier.
SleepStateOfTheTable(h, age_years) ==
    IF age_years + 1 \in DOMAIN AgeTiers
       /\ h \in SleepPatterns[AgeTiers[age_years + 1]].sleep_hours
    THEN "asleep" ELSE "awake"

\* C32: for every hour 0..23 and every age tier of the sleep table
\* _determine_sleep_state returns "asleep" exactly when the hour is in the
\* tier's sleep_hours and "awake" otherwise, and "awake" for every hour at an
\* age of 5 or more; the sleep_state of every planned hour is that value.
C32_SleepStateFollowsTheTable ==
    /\ \A h \in Hours : \A age_years \in AgeYearsTried :
          DetermineSleepState(h, age_years) = SleepStateOfTheTable(h, age_years)
    /\ \A r \in DOMAIN plan_runs : \A k \in DOMAIN plan_runs[r] :
          \A i \in DOMAIN plan_runs[r][k] :
             plan_runs[r][k][i].sleep_state
                = SleepStateOfTheTable(plan_runs[r][k][i].hour,
                                       plan_input.target_date.age_days \div DaysPerYear)

\* A day was planned for a child of the infant tier, and hour 14, which is
\* in the sleep_hours of the tier, was planned asleep.
C32_Witness ==
    /\ plan_runs[1] # <<>>
    /\ plan_input.target_date.age_days \div DaysPerYear = 1
    /\ plan_runs[1][1][15].hour = 14
    /\ plan_runs[1][1][15].sleep_state = "asleep"

\* The generation_history entries that the two chunk updates of the day
\* persisted: the last two entries of the generator's memory when the day's
\* second save_memory has run.
ChunkEntriesOfTheDay == LastN(memory.generation_history, 2)

\* C33: no persisted memory update is lost to a stale copy: the memory file
\* written when ChunkedIterativeGenerator.generate_day finishes still holds
\* every generation_history entry that the two chunk updates of the day
\* persisted.
C33_NoUpdateLostToStaleCopy ==
    mem_pc = "iter_done" =>
        \A i \in DOMAIN ChunkEntriesOfTheDay :
           \E j \in DOMAIN memory_file[1].generation_history :
              memory_file[1].generation_history[j] = ChunkEntriesOfTheDay[i]

\* The hours the memory file reflects: the hour ranges of its
\* generation_history entries.
HoursInMemoryFile ==
    IF memory_file = <<>> THEN {}
    ELSE UNION { memory_file[1].generation_history[i].range[1]
                    .. memory_file[1].generation_history[i].range[2] :
                 i \in DOMAIN memory_file[1].generation_history }

\* The hours whose results are in the day file.
HoursInDayFile ==
    IF day_file = <<>> THEN {}
    ELSE {h \in Hours : day_file[1].internal_monologue[h].source # "none"}

\* C34: persisted continuity memory never runs ahead of persisted artifacts:
\* wherever a run can stop, also during chunk 2, the memory file reflects
\* only hours whose day artifact has been written.
C34_MemoryNeverAheadOfArtifacts == HoursInMemoryFile \subseteq HoursInDayFile

\* C35: for every birthdate and target date the week index with which
\* _generate_chunk looks up the weekly context equals the week index
\* HourPlanner uses for the same date, so both pipelines select the same
\* timeline entry.
C35_PipelinesUseTheSameWeek ==
    LET age_days == plan_input.target_date.age_days
    IN /\ TwoPassGetWeekIndex(age_days) = GetWeekIndex(age_days)
       /\ WeekMatches(TwoPassGetWeekIndex(age_days),
                      Get(plan_input.timeline_data, "weekly_timeline", <<>>))
            = WeekMatches(GetWeekIndex(age_days),
                          Get(plan_input.timeline_data, "weekly_timeline", <<>>))

\* C39: the age in weeks used in the two-pass prompts and fallbacks,
\* (year - 1) * 52 + week of the hour plan, equals the child's age in weeks,
\* (target_date - birthdate).days // 7, for every target date in the first
\* five years of life.
C39_PromptAgeIsTheAgeInWeeks ==
    LET age_days == plan_input.target_date.age_days
    IN age_days < 5 * DaysPerYear =>
          \A h \in Hours :
             PromptAgeWeeks(TwoPassHourPlan(h, plan_input.scenario, plan_input.target_date,
                                            plan_input.timeline_data))
                = age_days \div DaysPerWeek

\* The slots of the gate: the free slots and the running hours add up to
\* max_concurrency, and an hour that is done went through the gate and made
\* its requests inside it.
SlotsAccounted ==
    orch_pc # "idle" =>
        /\ semaphore + Cardinality({h \in Hours : task[h] = "running"}) = max_concurrency
        /\ \A h \in Hours : task[h] = "done" => calls[h].requests >= 1

\* generate_day completed: it saved the day and returned the DayFile.
DayCompleted == orch_pc = "done"

\* C36: for every max_concurrency of at least 1 and every pattern of hour
\* successes and failures, each of the 24 hours eventually acquires the gate
\* and ends, its slot is released when it ends, also when it fails, and
\* generate_day eventually completes.
C36_EveryHourAdmittedAndDayCompletes ==
    /\ []SlotsAccounted
    /\ (orch_pc = "gather") ~>
          ( /\ DayCompleted
            /\ \A h \in Hours : task[h] = "done"
            /\ semaphore = max_concurrency )

\* C37: every manifest line refers to a day artifact that already exists:
\* _save_day_file writes the artifact before _update_manifest appends the
\* line, so stopping between the two steps leaves no manifest entry without a
\* file.
C37_ManifestLineHasArtifact ==
    /\ manifest # <<>> => orch_day_file # <<>>
    /\ orch_pc = "manifest" => (orch_day_file # <<>> /\ manifest = <<>>)

\* The day was saved and its manifest line appended.
C37_Witness ==
    /\ orch_pc = "done"
    /\ Len(manifest) = 1
    /\ orch_day_file # <<>>

\* C38: whatever the order in which the concurrently generated hours finish,
\* the day file built by generate_day has exactly 24 hour chunks and the
\* chunk at position i is the result for hour i, for service and fallback
\* results; so is every result gather holds while the hours run.
C38_ChunksInHourOrder ==
    /\ orch_day_file # <<>> =>
          /\ DOMAIN orch_day_file[1] = 0 .. (HoursPerDay - 1)
          /\ \A i \in DOMAIN orch_day_file[1] :
                /\ orch_day_file[1][i].hour = i
                /\ orch_day_file[1][i].source \in {"service", "fallback"}
    /\ \A h \in Hours : task[h] = "done" => hour_chunks[h].hour = h

\* A day generated two hours at a time was saved, with the fallback result
\* of hour 7 between the service results of hours 6 and 8.
C38_Witness ==
    /\ orch_day_file # <<>>
    /\ max_concurrency = 2
    /\ orch_day_file[1][6].source = "service"
    /\ orch_day_file[1][7].source = "fallback"
    /\ orch_day_file[1][8].source = "service"

=============================================================================
